---- MODULE Spec2Model ----
(***************************************************************************)
(* A model of blackhole-py: the device lifecycle and reset state machine   *)
(* (device.py, helpers.py), harvesting detection, tile-grid derivation and *)
(* firmware upload.                                                         *)
(*                                                                          *)
(* tlb.py (TLBWindow, TLBConfig, TLBMode, TLBSize) and configs.py (Arc,     *)
(* Dram, TensixL1, TensixMMIO) are imported by device.py but are not among  *)
(* the source files; what the model needs of them is taken from spec.md     *)
(* sections 4.1 and 4.4 and is marked where it is defined.                  *)
(***************************************************************************)
EXTENDS Integers, Sequences, FiniteSets, TLC

VARIABLES
  fn,        \* pure-function harness: the function under test
  arg,       \* its arguments
  called,    \* whether it has been applied
  res        \* its result, once applied

fnVars == <<fn, arg, called, res>>

VARIABLES
  bpc,          \* bring-up (Device.__init__ lines 66-71): position in the code
  exc,          \* the exception that ended it, "none" while none did
  acq,          \* per window ("arc", "fw"): how often it was acquired
  rel,          \* per window: how often it was released
  slots,        \* kernel-side TLB slots currently allocated
  wlog,         \* the operations issued through the window of the running call
  hl,           \* get_harvesting's locals
  harvesting,   \* self.harvesting
  tiles,        \* self.tiles
  fws,          \* upload_firmware: the parsed firmware images
  cfg,          \* upload_firmware: the TLBConfig object cfg
  ul            \* upload_firmware: loop positions (range, image, segment)

bringVars == <<bpc, exc, acq, rel, slots, wlog, hl, harvesting, tiles, fws, cfg, ul>>

VARIABLES
  pc,        \* Device lifecycle: position in the code ("new": not constructed)
  top,       \* the call the client made that is running: "init", "reset", "close"
  life,      \* the lifecycle state of spec.md 4.5 the device is in
  dexc,      \* the exception that ended the last call, "none" if it returned
  retried,   \* _setup's parameter
  dmc,       \* reset's parameter dmc_reset
  fd,        \* self.fd: a descriptor number
  path,      \* self.path: the ordinal of /dev/tenstorrent/<ordinal>
  arch,      \* self.arch
  mm0,       \* self.mm0: unset, live or closed, and the descriptor it maps
  mm1,       \* self.mm1
  bdf,       \* reset's local bdf
  polls,     \* reset: iterations of the poll loop started
  fdtab,     \* the process's descriptor table: descriptor number -> open file
  gen,       \* descriptors the Device has opened so far (each gets the next number)
  nodes,     \* /dev/tenstorrent: ordinal -> the device it names now
  evlog,     \* the system calls of the running (or last) call, in order
  rsum,      \* reset: what held when it was called and how its wait went
  resets     \* reset() calls made by the client

devVars == <<pc, top, life, dexc, retried, dmc, fd, path, arch, mm0, mm1, bdf, polls,
             fdtab, gen, nodes, evlog, rsum, resets>>

vars == <<fnVars, bringVars, devVars>>
\* what the actions of each part leave alone
notFn == <<bringVars, devVars>>
notBring == <<fnVars, devVars>>
notDev == <<fnVars, bringVars>>

(***************************************************************************)
(* Bit operations on non-negative Python ints.                             *)
(***************************************************************************)
RECURSIVE Pow2(_)
Pow2(n) == IF n = 0 THEN 1 ELSE 2 * Pow2(n - 1)

\* (x >> pos) & 1
Bit(x, pos) == (x \div Pow2(pos)) % 2

\* a & b
RECURSIVE BitAnd(_, _)
BitAnd(a, b) ==
  IF a = 0 \/ b = 0 THEN 0
  ELSE (a % 2) * (b % 2) + 2 * BitAnd(a \div 2, b \div 2)

\* a & ~m for non-negative a and m: Python's ~m is -m-1, whose two's
\* complement has exactly the bits of m cleared, so the AND keeps the bits
\* of a that are not set in m.
RECURSIVE AndNot(_, _)
AndNot(a, m) ==
  IF a = 0 THEN 0
  ELSE (IF m % 2 = 1 THEN 0 ELSE a % 2) + 2 * AndNot(a \div 2, m \div 2)

(***************************************************************************)
(* helpers.py: align_down                                                  *)
(***************************************************************************)
\* mutant: the mask is built from the alignment itself, not alignment - 1
align_down_NoMinusOne(value, alignment) ==
  LET base == AndNot(value, alignment)
  IN  <<base, value - base>>

\* base = value & ~(alignment.value - 1); return base, value - base
align_down(value, alignment) ==
  LET base == AndNot(value, alignment - 1)
  IN  <<base, value - base>>

(***************************************************************************)
(* Sequences helpers                                                       *)
(***************************************************************************)
Range(s) == { s[i] : i \in 1..Len(s) }

\* Python's sorted() on a list of ints: insertion into an ascending list
RECURSIVE InsertSorted(_, _)
InsertSorted(x, s) ==
  IF s = <<>> THEN <<x>>
  ELSE IF x <= Head(s) THEN <<x>> \o s
  ELSE <<Head(s)>> \o InsertSorted(x, Tail(s))

RECURSIVE sorted(_)
sorted(s) == IF s = <<>> THEN <<>> ELSE InsertSorted(Head(s), sorted(Tail(s)))

(***************************************************************************)
(* Constants                                                               *)
(***************************************************************************)
\* main.py:35, imported by device.py from configs
HARVESTING_NOC_LOCATIONS == <<1, 16, 2, 15, 3, 14, 4, 13, 5, 12, 6, 11, 7, 10>>

\* Arc.DEFAULT_TENSIX_ENABLED / DEFAULT_ETH_ENABLED / DEFAULT_GDDR_ENABLED:
\* the defaults given to read_tag (0x3FFF, 0x3FFF, 0xFF)
Arc_DEFAULT_TENSIX_ENABLED == 16383
Arc_DEFAULT_ETH_ENABLED == 16383
Arc_DEFAULT_GDDR_ENABLED == 255
\* Arc.TAG_TENSIX_ENABLED / TAG_ETH_ENABLED / TAG_GDDR_ENABLED
Arc_TAG_TENSIX_ENABLED == 34
Arc_TAG_ETH_ENABLED == 35
Arc_TAG_GDDR_ENABLED == 36
\* Dram.BANK_COUNT: one bank per bit of the 8-bit enabled-bank mask
Dram_BANK_COUNT == 8

\* TileGrid.from_harvesting's locals and TileGrid.TENSIX_Y
max_x == 16
l2cpu_col == 8
dram_cols == {0, 9}
TENSIX_Y0 == 2
TENSIX_Y1 == 11

\* Stand-ins for the constants of configs.py, which is not among the source
\* files: the local-RAM alias range [LOCAL_RAM_START, LOCAL_RAM_END] lies
\* above the per-core memory [0, TensixL1_SIZE), as spec.md 4.4 describes.
TensixMMIO_LOCAL_RAM_START == 40
TensixMMIO_LOCAL_RAM_END == 47
TensixL1_SIZE == 24

(***************************************************************************)
(* device.py: Harvesting and the decoding at the end of get_harvesting     *)
(***************************************************************************)
\* The dataclass constructor: it stores the fields it is given; the class has
\* no __post_init__ and the annotations are not enforced.
Harvesting(tensix_cols, dram_bank, all_eth_disabled) ==
  [tensix_cols |-> tensix_cols, dram_bank |-> dram_bank,
   all_eth_disabled |-> all_eth_disabled]

NoHarvesting == Harvesting(<<>>, 0, FALSE)

\* [loc for pos, loc in enumerate(HARVESTING_NOC_LOCATIONS)
\*      if ((tensix_enabled >> pos) & 1) == 0], from position pos on
RECURSIVE OffLocs(_, _)
OffLocs(tensix_enabled, pos) ==
  IF pos >= Len(HARVESTING_NOC_LOCATIONS) THEN <<>>
  ELSE (IF Bit(tensix_enabled, pos) = 0
        THEN <<HARVESTING_NOC_LOCATIONS[pos + 1]>> ELSE <<>>)
       \o OffLocs(tensix_enabled, pos + 1)

\* mutant: the sorted() is dropped, the columns stay in table order
tensix_off_Unsorted(tensix_enabled) == OffLocs(tensix_enabled, 0)

\* device.py:165
tensix_off(tensix_enabled) == sorted(OffLocs(tensix_enabled, 0))

\* [bank for bank in range(Dram.BANK_COUNT) if ((gddr_enabled >> bank) & 1) == 0]
RECURSIVE OffBanks(_, _)
OffBanks(gddr_enabled, bank) ==
  IF bank >= Dram_BANK_COUNT THEN <<>>
  ELSE (IF Bit(gddr_enabled, bank) = 0 THEN <<bank>> ELSE <<>>)
       \o OffBanks(gddr_enabled, bank + 1)

\* device.py:166
dram_off(gddr_enabled) == OffBanks(gddr_enabled, 0)

\* mutant: the two length assertions are dropped; the record is built from
\* the first entries that exist
DecodeHarvesting_NoAssert(tensix_enabled, eth_enabled, gddr_enabled) ==
  LET t == tensix_off(tensix_enabled)
      d == dram_off(gddr_enabled)
  IN  [err |-> "none",
       val |-> Harvesting(IF Len(t) >= 2 THEN <<t[1], t[2]>> ELSE t,
                          IF Len(d) >= 1 THEN d[1] ELSE 0,
                          BitAnd(eth_enabled, Arc_DEFAULT_ETH_ENABLED) = 0)]

\* device.py:165-175: the two lists, the two assertions, the record
DecodeHarvesting(tensix_enabled, eth_enabled, gddr_enabled) ==
  LET t == tensix_off(tensix_enabled)
      d == dram_off(gddr_enabled)
  IN  IF Len(t) # 2 \/ Len(d) # 1
      THEN [err |-> "AssertionError", val |-> NoHarvesting]
      ELSE [err |-> "none",
            val |-> Harvesting(<<t[1], t[2]>>, d[1],
                               BitAnd(eth_enabled, Arc_DEFAULT_ETH_ENABLED) = 0)]

(***************************************************************************)
(* device.py: TileGrid.from_harvesting                                     *)
(* (the dram tile list needs Dram.BANK_X and Dram.BANK_TILE_YS of          *)
(* configs.py, which are not among the source files; it is left out)       *)
(***************************************************************************)
\* [x for x in range(max_x + 1) if x not in dram_cols and x != l2cpu_col
\*    and x not in disabled], from column x on
RECURSIVE ValidColsFrom(_, _)
ValidColsFrom(x, disabled) ==
  IF x > max_x THEN <<>>
  ELSE (IF x \notin dram_cols /\ x # l2cpu_col /\ x \notin disabled
        THEN <<x>> ELSE <<>>)
       \o ValidColsFrom(x + 1, disabled)

tensix_cols_of(h) == ValidColsFrom(0, Range(h.tensix_cols))

\* mutant: range(y0, y1), the last row is left out
RECURSIVE RowsFrom_Exclusive(_, _)
RowsFrom_Exclusive(x, y) ==
  IF y >= TENSIX_Y1 THEN <<>> ELSE <<(<<x, y>>)>> \o RowsFrom_Exclusive(x, y + 1)

\* [(x, y) for x in tensix_cols for y in range(y0, y1 + 1)]
RECURSIVE RowsFrom(_, _)
RowsFrom(x, y) ==
  IF y > TENSIX_Y1 THEN <<>> ELSE <<(<<x, y>>)>> \o RowsFrom(x, y + 1)

RECURSIVE UnicastFrom(_, _)
UnicastFrom(cols, i) ==
  IF i > Len(cols) THEN <<>>
  ELSE RowsFrom(cols[i], TENSIX_Y0) \o UnicastFrom(cols, i + 1)

\* mutant: the column is compared with prev instead of prev + 1: the columns
\* being distinct, every column ends the run before it and no run is longer
\* than one column
McastBreak_PrevOnly(x, prev) == x # prev

\* device.py:46: the test that ends a run
McastBreak(x, prev) == x # prev + 1

\* the loop of device.py:45-50 from index i of tensix_cols on
RECURSIVE McastLoop(_, _, _, _, _)
McastLoop(cols, i, start, prev, acc) ==
  IF i > Len(cols) THEN Append(acc, <<start, prev>>)
  ELSE LET x == cols[i]
       IN  IF McastBreak(x, prev)
           THEN McastLoop(cols, i + 1, x, x, Append(acc, <<start, prev>>))
           ELSE McastLoop(cols, i + 1, start, x, acc)

\* mutant: the append after the loop (device.py:50) is dropped, so the last
\* run is lost
RECURSIVE McastLoop_NoLast(_, _, _, _, _)
McastLoop_NoLast(cols, i, start, prev, acc) ==
  IF i > Len(cols) THEN acc
  ELSE LET x == cols[i]
       IN  IF McastBreak(x, prev)
           THEN McastLoop_NoLast(cols, i + 1, x, x, Append(acc, <<start, prev>>))
           ELSE McastLoop_NoLast(cols, i + 1, start, x, acc)

tensix_mcast_of_NoLast(cols) ==
  IF cols = <<>> THEN <<>> ELSE McastLoop_NoLast(cols, 2, cols[1], cols[1], <<>>)

\* device.py:42-50
tensix_mcast_of(cols) ==
  IF cols = <<>> THEN <<>> ELSE McastLoop(cols, 2, cols[1], cols[1], <<>>)

from_harvesting(h) ==
  LET cols == tensix_cols_of(h)
  IN  [tensix |-> UnicastFrom(cols, 1), tensix_mcast |-> tensix_mcast_of(cols)]

(***************************************************************************)
(* main.py: the harvesting mask of the second variant of get_harvesting    *)
(***************************************************************************)
\* main.py:36
SORTED_LOCATIONS == sorted(HARVESTING_NOC_LOCATIONS)

\* main.py:37: {loc: idx for idx, loc in enumerate(SORTED_LOCATIONS)}
HARVESTING_INDEX_BY_LOC ==
  [loc \in Range(SORTED_LOCATIONS) |->
     CHOOSE idx \in 0..(Len(SORTED_LOCATIONS) - 1) : SORTED_LOCATIONS[idx + 1] = loc]

\* a | b
BitOr(a, b) == a + b - BitAnd(a, b)

\* main.py:44-46: the loop over enumerate(HARVESTING_NOC_LOCATIONS)
RECURSIVE ShuffleLoop(_, _, _)
ShuffleLoop(raw_mask, pos, new_mask) ==
  IF pos >= Len(HARVESTING_NOC_LOCATIONS) THEN new_mask
  ELSE ShuffleLoop(raw_mask, pos + 1,
         IF BitAnd(raw_mask, Pow2(pos)) # 0
         THEN BitOr(new_mask, Pow2(HARVESTING_INDEX_BY_LOC[HARVESTING_NOC_LOCATIONS[pos + 1]]))
         ELSE new_mask)

\* mutant: the raw mask is returned without reordering
shuffle_tensix_harvesting_mask_Raw(raw_mask) == BitAnd(raw_mask, 16383)

\* main.py:42-47
shuffle_tensix_harvesting_mask(raw_mask) == ShuffleLoop(raw_mask, 0, 0)

\* main.py:137: tensix = shuffle_tensix_harvesting_mask(~tensix_enabled & 0x3FFF)
main_tensix_harvesting(tensix_enabled) ==
  shuffle_tensix_harvesting_mask(AndNot(16383, tensix_enabled))

(***************************************************************************)
(* helpers.load_pt_load: the loadable segments of a 32-bit ELF image.      *)
(* A file is a sequence of bytes; file offsets count from 0.               *)
(***************************************************************************)
PT_LOAD == 1
\* struct.calcsize("<IIIIIIII"), the bytes one program header is unpacked from
ProgramHeaderSize == 32

\* struct.unpack_from raises struct.error unless size bytes lie at offset at
Unpackable(elf, at, size) == at + size <= Len(elf)

\* "<H": two bytes, little-endian
U16(elf, at) == elf[at + 1] + 256 * elf[at + 2]

\* "<I": four bytes, little-endian
U32(elf, at) ==
  elf[at + 1] + 256 * elf[at + 2] + 65536 * elf[at + 3] + 16777216 * elf[at + 4]

\* elf[a:b] for 0 <= a: the slice stops at the end of the file
Slice(elf, a, b) ==
  LET hi == IF b <= Len(elf) THEN b ELSE Len(elf)
  IN  IF a >= hi THEN <<>> ELSE SubSeq(elf, a + 1, hi)

PTLoad(paddr, data, memsz) == [paddr |-> paddr, data |-> data, memsz |-> memsz]

\* an exception leaves the call; the segments collected so far are dropped
Raised(e) == [err |-> e, segs |-> <<>>]

\* mutant: only the start of the file range is compared with the file size
Truncated_StartOnly(p_offset, p_filesz, size) == p_offset > size

\* if p_offset + p_filesz > len(elf): raise ValueError("ELF truncated")
Truncated(p_offset, p_filesz, size) == p_offset + p_filesz > size

\* for i in range(e_phnum): ...
RECURSIVE PtLoadLoop(_, _, _, _, _, _)
PtLoadLoop(elf, e_phoff, e_phentsize, e_phnum, i, segs) ==
  IF i >= e_phnum THEN [err |-> "none", segs |-> segs]
  ELSE
    LET off == e_phoff + i * e_phentsize
    IN  IF ~Unpackable(elf, off, ProgramHeaderSize) THEN Raised("struct.error")
        ELSE
          LET p_type   == U32(elf, off)
              p_offset == U32(elf, off + 4)
              p_paddr  == U32(elf, off + 12)
              p_filesz == U32(elf, off + 16)
              p_memsz  == U32(elf, off + 20)
          IN  IF p_type # PT_LOAD
                THEN PtLoadLoop(elf, e_phoff, e_phentsize, e_phnum, i + 1, segs)
              ELSE IF Truncated(p_offset, p_filesz, Len(elf))
                THEN Raised("ValueError")
              ELSE PtLoadLoop(elf, e_phoff, e_phentsize, e_phnum, i + 1,
                     Append(segs, PTLoad(p_paddr,
                                         Slice(elf, p_offset, p_offset + p_filesz),
                                         p_memsz)))

load_pt_load(elf) ==
  IF ~Unpackable(elf, 28, 4) THEN Raised("struct.error")
  ELSE IF ~Unpackable(elf, 42, 4) THEN Raised("struct.error")
  ELSE PtLoadLoop(elf, U32(elf, 28), U16(elf, 42), U16(elf, 44), 0, <<>>)

(***************************************************************************)
(* device.py: remap_addr (a closure of upload_firmware)                    *)
(***************************************************************************)
\* mutant: the scratch base is not added
remap_addr_NoBase(addr, init_base) ==
  IF TensixMMIO_LOCAL_RAM_START <= addr /\ addr <= TensixMMIO_LOCAL_RAM_END
  THEN LET a == addr - TensixMMIO_LOCAL_RAM_START
       IN  IF 0 <= a /\ a < TensixL1_SIZE
           THEN [err |-> "none", addr |-> a]
           ELSE [err |-> "AssertionError", addr |-> a]
  ELSE [err |-> "none", addr |-> addr]

\* device.py:99-103
remap_addr(addr, init_base) ==
  IF TensixMMIO_LOCAL_RAM_START <= addr /\ addr <= TensixMMIO_LOCAL_RAM_END
  THEN LET a == (addr - TensixMMIO_LOCAL_RAM_START) + init_base
       IN  IF 0 <= a /\ a < TensixL1_SIZE
           THEN [err |-> "none", addr |-> a]
           ELSE [err |-> "AssertionError", addr |-> a]
  ELSE [err |-> "none", addr |-> addr]


(***************************************************************************)
(* Bring-up: get_harvesting, TileGrid.from_harvesting and upload_firmware  *)
(* as Device.__init__ runs them (device.py:66-71) on a device that _setup  *)
(* has mapped.                                                             *)
(*                                                                         *)
(* TLBWindow is modelled from spec.md 4.1: acquire allocates a kernel slot *)
(* (and configures it when a configuration is given) or fails leaving no   *)
(* slot; release frees it; a window used as a context manager is released  *)
(* when the with block is left. wlog records what is issued through it.    *)
(***************************************************************************)
\* main.py:31-33 (Arc.SCRATCH_RAM_13, Arc.CSM_START, Arc.CSM_END)
Arc_SCRATCH_RAM_13 == 197684
Arc_CSM_START == 268435456
Arc_CSM_END == 268959743
\* TLBSize.MiB_2.value
TLBSize_MiB_2 == 2097152
\* Stand-ins for TensixMMIO.RISCV_DEBUG_REG_SOFT_RESET_0 and
\* TensixMMIO.SOFT_RESET_ALL of configs.py
TensixMMIO_RISCV_DEBUG_REG_SOFT_RESET_0 == 6291888
TensixMMIO_SOFT_RESET_ALL == 293888

\* names (device.py:76) and the scratch bases of fw_map (device.py:82-88);
\* the bases are stand-ins for the TensixL1.*_INIT_LOCAL_L1_BASE_SCRATCH
\* constants of configs.py
FwNames == <<"brisc.elf", "ncrisc.elf", "trisc0.elf", "trisc1.elf", "trisc2.elf">>
FwInitBase == <<2, 6, 10, 14, 18>>

WinIds == {"arc", "fw"}

MaxEntries == 2   \* telemetry table: at most MaxEntries (tag, offset) entries
MaxOff == 1       \* telemetry table: data offsets 0..MaxOff

\* values the scratch register may hold: 0, below, at the start of, inside,
\* at the end of and above the CSM region
PtrInputs == {0, Arc_CSM_START - 4, Arc_CSM_START, Arc_CSM_START + 928,
              Arc_CSM_END, Arc_CSM_END + 1}
\* tags a table entry may carry: the three required ones and another
TagInputs == {Arc_TAG_TENSIX_ENABLED, Arc_TAG_ETH_ENABLED, Arc_TAG_GDDR_ENABLED, 1}
\* packed table entries: tag in the low 16 bits, offset in the high 16
EntryWords == { t + o * 65536 : t \in TagInputs, o \in 0..MaxOff }
\* data words: 0x3DEF, 0x3FFC, 0x3FF9, 0xFE, 0x7F
DataWords == {15855, 16380, 16377, 254, 127}

\* PTLoad segments as (paddr, len(data)); the lists load_pt_load may return
\* for one image: none, one outside the alias range, an empty one followed by
\* an aliased one, one at the end of the alias range, an empty one at the
\* end of the alias range
SegLists == { <<>>,
              << <<6, 2>> >>,
              << <<41, 0>>, <<42, 3>> >>,
              << <<47, 1>> >>,
              << <<47, 0>> >> }
\* the five images: all alike but one
FwInputs ==
  { [i \in 1..Len(FwNames) |-> IF i = k THEN a ELSE b] :
      k \in 1..Len(FwNames), a \in SegLists, b \in SegLists }

NoCfg == [start |-> <<0, 0>>, end |-> <<0, 0>>, addr |-> 0, mode |-> "none"]
NoHl == [ptr |-> 0, csm_base |-> 0, csm_offset |-> 0, entry_count |-> 0,
         i |-> 0, tag_to_offset |-> <<>>,
         tensix_enabled |-> 0, eth_enabled |-> 0, gddr_enabled |-> 0,
         \* what the window returned: the entry words in the order read, and
         \* the data words by offset
         entries |-> <<>>, mem |-> <<>>]
NoUl == [ri |-> 0, fi |-> 0, si |-> 0]
NoTiles == [tensix |-> <<>>, tensix_mcast |-> <<>>]

\* the values of the bring-up variables while no bring-up runs
BringIdle ==
  /\ bpc = "idle" /\ exc = "none"
  /\ acq = [w \in WinIds |-> 0] /\ rel = [w \in WinIds |-> 0] /\ slots = 0
  /\ wlog = <<>> /\ hl = NoHl /\ harvesting = NoHarvesting /\ tiles = NoTiles
  /\ fws = <<>> /\ cfg = NoCfg /\ ul = NoUl

BringInit ==
  /\ bpc = "get_harvesting" /\ exc = "none"
  /\ acq = [w \in WinIds |-> 0] /\ rel = [w \in WinIds |-> 0] /\ slots = 0
  /\ wlog = <<>> /\ hl = NoHl /\ harvesting = NoHarvesting /\ tiles = NoTiles
  /\ fws = <<>> /\ cfg = NoCfg /\ ul = NoUl

\* the window whose with block the code is in at position at, "none" outside
WindowAt(at) ==
  IF at \in {"h_read_ptr", "h_configure", "h_header", "h_entries", "h_tags", "h_decode"}
  THEN "arc"
  ELSE IF at \in {"u_range", "u_seg", "u_release"} THEN "fw"
  ELSE "none"

\* mutant: the window is not a context manager; only the end of the block
\* releases it, an exception passing through does not
RaiseInWith_Leak(r, w) == r

\* leaving a with block releases its window (TLBWindow.__exit__)
WithExit(r, w) == [r EXCEPT ![w] = @ + 1]

\* device.py:137 and 107: an exception raised inside the with block leaves
\* the block, which releases the window
RaiseInWith(r, w) == WithExit(r, w)

\* an exception e raised at a position inside a with block
Raise(e) ==
  /\ exc' = e
  /\ bpc' = "raised"
  /\ rel' = RaiseInWith(rel, WindowAt(bpc))
  /\ slots' = slots - (rel'[WindowAt(bpc)] - rel[WindowAt(bpc)])
  /\ wlog' = IF rel' # rel THEN Append(wlog, [op |-> "release", win |-> WindowAt(bpc)])
             ELSE wlog

\* an exception e raised outside any with block
RaiseOutside(e) ==
  /\ exc' = e
  /\ bpc' = "raised"
  /\ UNCHANGED <<rel, slots, wlog>>

\* the end of a with block reached normally
LeaveWith(w, log) ==
  /\ rel' = WithExit(rel, w)
  /\ slots' = slots - 1
  /\ wlog' = Append(log, [op |-> "release", win |-> w])

(* ------------------------- get_harvesting ----------------------------- *)
\* device.py:137: TLBWindow(self.fd, TLBSize.MiB_2, tlb_config)
HAcquire ==
  /\ bpc = "get_harvesting"
  /\ \/ /\ acq' = [acq EXCEPT !["arc"] = @ + 1]
        /\ slots' = slots + 1
        /\ wlog' = <<[op |-> "acquire", win |-> "arc", target |-> "Arc.NOC_BASE",
                      mode |-> "STRICT"]>>
        /\ bpc' = "h_read_ptr"
        /\ UNCHANGED <<exc, rel>>
     \/ /\ RaiseOutside("OSError")
        /\ UNCHANGED acq
  /\ UNCHANGED <<hl, harvesting, tiles, fws, cfg, ul>>
  /\ UNCHANGED notBring

\* mutant: only a zero pointer is rejected
TelemAddrInvalid_ZeroOnly(telem_struct_addr) == telem_struct_addr = 0

\* device.py:140: the test on telem_struct_addr
TelemAddrInvalid(telem_struct_addr) ==
  telem_struct_addr = 0
    \/ ~(Arc_CSM_START <= telem_struct_addr /\ telem_struct_addr <= Arc_CSM_END)

\* device.py:138-143: read the telemetry pointer, check it, split it
HReadPtr ==
  /\ bpc = "h_read_ptr"
  /\ \E p \in PtrInputs :
       LET log == Append(wlog, [op |-> "readi32", win |-> "arc", off |-> Arc_SCRATCH_RAM_13])
       IN  IF TelemAddrInvalid(p)
           THEN /\ exc' = "RuntimeError"
                /\ bpc' = "raised"
                /\ rel' = RaiseInWith(rel, "arc")
                /\ slots' = slots - (rel'["arc"] - rel["arc"])
                /\ wlog' = IF rel' # rel
                           THEN Append(log, [op |-> "release", win |-> "arc"])
                           ELSE log
                /\ hl' = [hl EXCEPT !.ptr = p]
           ELSE /\ hl' = [hl EXCEPT !.ptr = p,
                                    !.csm_base = align_down(p, TLBSize_MiB_2)[1],
                                    !.csm_offset = align_down(p, TLBSize_MiB_2)[2]]
                /\ wlog' = log
                /\ bpc' = "h_configure"
                /\ UNCHANGED <<exc, rel, slots>>
  /\ UNCHANGED <<acq, harvesting, tiles, fws, cfg, ul>>
  /\ UNCHANGED notBring

\* device.py:145-146
HConfigure ==
  /\ bpc = "h_configure"
  /\ wlog' = Append(wlog, [op |-> "configure", win |-> "arc", addr |-> hl.csm_base,
                           mode |-> "STRICT"])
  /\ bpc' = "h_header"
  /\ UNCHANGED <<exc, acq, rel, slots, hl, harvesting, tiles, fws, cfg, ul>>
  /\ UNCHANGED notBring

\* device.py:148-152
HReadHeader ==
  /\ bpc = "h_header"
  /\ \E n \in 0..MaxEntries :
       hl' = [hl EXCEPT !.entry_count = n, !.i = 0, !.tag_to_offset = <<>>]
  /\ wlog' = Append(wlog, [op |-> "readi32", win |-> "arc", off |-> hl.csm_offset + 4])
  /\ bpc' = "h_entries"
  /\ UNCHANGED <<exc, acq, rel, slots, harvesting, tiles, fws, cfg, ul>>
  /\ UNCHANGED notBring

tags_base(h) == h.csm_offset + 8
data_base(h) == tags_base(h) + h.entry_count * 4

\* tag_to_offset[key] = value on a dict held as a function
DictSet(d, key, value) ==
  [k \in DOMAIN d \cup {key} |-> IF k = key THEN value ELSE d[k]]

\* device.py:153-155: one iteration of the loop over the entries
HReadEntry ==
  /\ bpc = "h_entries"
  /\ hl.i < hl.entry_count
  /\ \E tag_offset \in EntryWords :
       hl' = [hl EXCEPT !.i = @ + 1,
                        !.entries = Append(@, tag_offset),
                        !.tag_to_offset =
                           DictSet(@, BitAnd(tag_offset, 65535),
                                   BitAnd(tag_offset \div 65536, 65535))]
  /\ wlog' = Append(wlog, [op |-> "readi32", win |-> "arc",
                           off |-> tags_base(hl) + hl.i * 4])
  /\ UNCHANGED <<bpc, exc, acq, rel, slots, harvesting, tiles, fws, cfg, ul>>
  /\ UNCHANGED notBring

\* mutant: an absent tag reads the word at offset 0 instead of the default
read_tag_NoDefault(h, mem, tag, default) ==
  IF tag \in DOMAIN h.tag_to_offset THEN mem[h.tag_to_offset[tag]] ELSE mem[0]

\* device.py:157-159: read_tag, on the data words mem (by offset)
read_tag(h, mem, tag, default) ==
  IF tag \in DOMAIN h.tag_to_offset THEN mem[h.tag_to_offset[tag]] ELSE default

\* the reads read_tag issues for the tags, in the order of the calls
RECURSIVE TagReads(_, _)
TagReads(h, tags) ==
  IF tags = <<>> THEN <<>>
  ELSE (IF Head(tags) \in DOMAIN h.tag_to_offset
        THEN <<[op |-> "readi32", win |-> "arc",
                off |-> data_base(h) + h.tag_to_offset[Head(tags)] * 4]>>
        ELSE <<>>)
       \o TagReads(h, Tail(tags))

\* device.py:161-163: the three read_tag calls
HReadTags ==
  /\ bpc = "h_entries"
  /\ hl.i = hl.entry_count
  /\ \E mem \in [0..MaxOff -> DataWords] :
       hl' = [hl EXCEPT
                !.mem = mem,
                !.tensix_enabled = read_tag(hl, mem, Arc_TAG_TENSIX_ENABLED, Arc_DEFAULT_TENSIX_ENABLED),
                !.eth_enabled = read_tag(hl, mem, Arc_TAG_ETH_ENABLED, Arc_DEFAULT_ETH_ENABLED),
                !.gddr_enabled = read_tag(hl, mem, Arc_TAG_GDDR_ENABLED, Arc_DEFAULT_GDDR_ENABLED)]
  /\ wlog' = wlog \o TagReads(hl, <<Arc_TAG_TENSIX_ENABLED, Arc_TAG_ETH_ENABLED,
                                    Arc_TAG_GDDR_ENABLED>>)
  /\ bpc' = "h_decode"
  /\ UNCHANGED <<exc, acq, rel, slots, harvesting, tiles, fws, cfg, ul>>
  /\ UNCHANGED notBring

\* device.py:165-175: decode, assert, leave the with block, build the record
HDecode ==
  /\ bpc = "h_decode"
  /\ LET d == DecodeHarvesting(hl.tensix_enabled, hl.eth_enabled, hl.gddr_enabled)
     IN  IF d.err # "none"
         THEN /\ Raise(d.err)
              /\ UNCHANGED <<hl, harvesting>>
         ELSE /\ LeaveWith("arc", <<>>)
              /\ harvesting' = d.val
              /\ hl' = NoHl
              /\ bpc' = "from_harvesting"
              /\ UNCHANGED exc
  /\ UNCHANGED <<acq, tiles, fws, cfg, ul>>
  /\ UNCHANGED notBring

\* device.py:68
BuildTiles ==
  /\ bpc = "from_harvesting"
  /\ tiles' = from_harvesting(harvesting)
  /\ bpc' = "upload_firmware"
  /\ UNCHANGED <<exc, acq, rel, slots, wlog, hl, harvesting, fws, cfg, ul>>
  /\ UNCHANGED notBring

(* ------------------------- upload_firmware ---------------------------- *)
\* device.py:80
reg_base == align_down(TensixMMIO_RISCV_DEBUG_REG_SOFT_RESET_0, TLBSize_MiB_2)[1]
reg_off == align_down(TensixMMIO_RISCV_DEBUG_REG_SOFT_RESET_0, TLBSize_MiB_2)[2]

\* mutant: the segments are written in strict mode
BulkMode_Strict == "STRICT"

\* device.py:114: the mode cfg carries while the segments are written
BulkMode == "ORDERED_BULK"

\* mutant: empty segments are written too
SegWritten_All(seg) == TRUE

\* device.py:118: if not seg.data: continue
SegWritten(seg) == seg[2] # 0

\* device.py:75-78: load the five images (load_pt_load raises ValueError on
\* a truncated segment, struct.error on a truncated header, OSError on a
\* file it cannot open)
ULoad ==
  /\ bpc = "upload_firmware"
  /\ \/ /\ \E f \in FwInputs : fws' = f
        /\ bpc' = "u_acquire"
        /\ UNCHANGED <<exc, rel, slots, wlog>>
     \/ /\ \E e \in {"ValueError", "struct.error", "OSError"} : RaiseOutside(e)
        /\ UNCHANGED fws
  /\ UNCHANGED <<acq, hl, harvesting, tiles, cfg, ul>>
  /\ UNCHANGED notBring

\* device.py:105-107: cfg = TLBConfig(...); with TLBWindow(self.fd, TLBSize.MiB_2)
UAcquire ==
  /\ bpc = "u_acquire"
  /\ \/ /\ acq' = [acq EXCEPT !["fw"] = @ + 1]
        /\ slots' = slots + 1
        /\ wlog' = <<[op |-> "acquire", win |-> "fw"]>>
        /\ cfg' = [NoCfg EXCEPT !.addr = reg_base, !.mode = "STRICT"]
        /\ ul' = [ri |-> 1, fi |-> 0, si |-> 0]
        /\ bpc' = "u_range"
        /\ UNCHANGED <<exc, rel>>
     \/ /\ RaiseOutside("OSError")
        /\ UNCHANGED <<acq, cfg, ul>>
  /\ UNCHANGED <<hl, harvesting, tiles, fws>>
  /\ UNCHANGED notBring

\* device.py:108-114: the next column range: configure the window in strict
\* mode at the reset register, assert reset, switch cfg to bulk mode; after
\* the last range the with block ends
URange ==
  /\ bpc = "u_range"
  /\ IF ul.ri > Len(tiles.tensix_mcast)
     THEN /\ LeaveWith("fw", wlog)
          /\ bpc' = "done"
          /\ UNCHANGED <<exc, cfg, ul>>
     ELSE LET x0 == tiles.tensix_mcast[ul.ri][1]
              x1 == tiles.tensix_mcast[ul.ri][2]
              c == [start |-> <<x0, TENSIX_Y0>>, end |-> <<x1, TENSIX_Y1>>,
                    addr |-> reg_base, mode |-> "STRICT"]
          IN  /\ wlog' = wlog \o
                   << [op |-> "configure", win |-> "fw", start |-> c.start,
                       end |-> c.end, addr |-> c.addr, mode |-> c.mode],
                      [op |-> "writei32", win |-> "fw", start |-> c.start,
                       end |-> c.end, addr |-> c.addr + reg_off, mode |-> c.mode,
                       val |-> TensixMMIO_SOFT_RESET_ALL] >>
              /\ cfg' = [c EXCEPT !.mode = BulkMode]
              /\ ul' = [ul EXCEPT !.fi = 1, !.si = 1]
              /\ bpc' = "u_seg"
              /\ UNCHANGED <<exc, rel, slots>>
  /\ UNCHANGED <<acq, hl, harvesting, tiles, fws>>
  /\ UNCHANGED notBring

\* device.py:115-121: one iteration of the loops over the images and their
\* segments. win.write(addr, data, restore=False) retargets the window at
\* addr under the window's configuration, which is the object cfg, and
\* leaves it there.
USeg ==
  /\ bpc = "u_seg"
  /\ IF ul.fi > Len(fws)
     THEN /\ bpc' = "u_release"
          /\ UNCHANGED <<exc, rel, slots, wlog, cfg, ul>>
     ELSE IF ul.si > Len(fws[ul.fi])
     THEN /\ ul' = [ul EXCEPT !.fi = @ + 1, !.si = 1]
          /\ UNCHANGED <<bpc, exc, rel, slots, wlog, cfg>>
     ELSE LET seg == fws[ul.fi][ul.si]
              r == remap_addr(seg[1], FwInitBase[ul.fi])
          IN  IF ~SegWritten(seg)
              THEN /\ ul' = [ul EXCEPT !.si = @ + 1]
                   /\ UNCHANGED <<bpc, exc, rel, slots, wlog, cfg>>
              ELSE IF r.err # "none"
              THEN /\ Raise(r.err)
                   /\ UNCHANGED <<cfg, ul>>
              ELSE /\ wlog' = Append(wlog,
                        [op |-> "write", win |-> "fw", start |-> cfg.start,
                         end |-> cfg.end, addr |-> r.addr, mode |-> cfg.mode,
                         len |-> seg[2], fw |-> FwNames[ul.fi]])
                   /\ cfg' = [cfg EXCEPT !.addr = align_down(r.addr, TLBSize_MiB_2)[1]]
                   /\ ul' = [ul EXCEPT !.si = @ + 1]
                   /\ UNCHANGED <<bpc, exc, rel, slots>>
  /\ UNCHANGED <<acq, hl, harvesting, tiles, fws>>
  /\ UNCHANGED notBring

\* device.py:123-125: back to strict mode at the reset register, release reset
URelease ==
  /\ bpc = "u_release"
  /\ LET c == [cfg EXCEPT !.addr = reg_base, !.mode = "STRICT"]
     IN  /\ cfg' = c
         /\ wlog' = wlog \o
              << [op |-> "configure", win |-> "fw", start |-> c.start,
                  end |-> c.end, addr |-> c.addr, mode |-> c.mode],
                 [op |-> "writei32", win |-> "fw", start |-> c.start,
                  end |-> c.end, addr |-> c.addr + reg_off, mode |-> c.mode,
                  val |-> 0] >>
  /\ ul' = [ul EXCEPT !.ri = @ + 1]
  /\ bpc' = "u_range"
  /\ UNCHANGED <<exc, acq, rel, slots, hl, harvesting, tiles, fws>>
  /\ UNCHANGED notBring

\* a read, write or configure through the open window raises
WindowFault ==
  /\ WindowAt(bpc) # "none"
  /\ Raise("OSError")
  /\ UNCHANGED <<acq, hl, harvesting, tiles, fws, cfg, ul>>
  /\ UNCHANGED notBring

BringNext ==
  \/ HAcquire
  \/ HReadPtr
  \/ HConfigure
  \/ HReadHeader
  \/ HReadEntry
  \/ HReadTags
  \/ HDecode
  \/ BuildTiles
  \/ ULoad
  \/ UAcquire
  \/ URange
  \/ USeg
  \/ URelease
  \/ WindowFault

(***************************************************************************)
(* Device lifecycle: __init__, _setup, _map_bars, reset, _close, close     *)
(* (device.py) and find_dev_by_bdf, _get_bdf_for_path (helpers.py).        *)
(*                                                                         *)
(* The process's descriptor table is modelled by number: os.open returns   *)
(* the lowest free number, os.close frees the number it is given. Each     *)
(* open file remembers which device it refers to and, for the Device's own *)
(* opens, which open it was (gen). /dev/tenstorrent is the environment:    *)
(* after a reset ioctl the device leaves it and may come back under any    *)
(* free ordinal.                                                           *)
(***************************************************************************)
\* device.py:238: for _ in range(50)
PollLimit == 50
\* autogen.py:35-37
TENSTORRENT_RESET_DEVICE_ASIC_RESET == 4
TENSTORRENT_RESET_DEVICE_ASIC_DMC_RESET == 5
TENSTORRENT_RESET_DEVICE_POST_RESET == 6

MaxOrd == 1      \* device files /dev/tenstorrent/0 .. MaxOrd
MaxLeak == 1     \* descriptors the probes may leave open
MaxResets == 2   \* reset() calls by the client

Ords == 0..MaxOrd
\* descriptor numbers 3 .. : room for the leaked ones, the Device's
\* descriptor and the duplicates its two mappings hold
FdNums == 3..(5 + MaxLeak)
\* device.py:179: the supported card types, and another one
SupportedArchs == {"p100a", "p150b"}
Archs == SupportedArchs \cup {"other"}

FreeFd == [kind |-> "free", dev |-> "none", gen |-> 0]
NoMap == [st |-> "unset", gen |-> 0]
NoRsum == [fromMapped |-> FALSE, preGen |-> 0, foundAt |-> 0, faulted |-> FALSE]

IsOpen(tab, n) == n \in FdNums /\ tab[n].kind # "free"
HasFree(tab) == \E n \in FdNums : tab[n].kind = "free"
\* os.open: the lowest descriptor number not in use
LowestFree(tab) ==
  CHOOSE n \in FdNums : tab[n].kind = "free" /\ \A m \in FdNums : m < n => tab[m].kind # "free"
\* the descriptor numbers still to be had (a dup() beyond them is EMFILE)
FreeFds(tab) == Cardinality({ n \in FdNums : tab[n].kind = "free" })
Leaked(tab) == Cardinality({ n \in FdNums : tab[n].kind = "probe" })

DevIdle ==
  /\ pc = "off" /\ top = "none" /\ life = "Closed" /\ dexc = "none"
  /\ retried = FALSE /\ dmc = FALSE /\ fd = 0 /\ path = 0 /\ arch = "unset"
  /\ mm0 = NoMap /\ mm1 = NoMap /\ bdf = "none" /\ polls = 0
  /\ fdtab = [n \in FdNums |-> FreeFd] /\ gen = 0
  /\ nodes = [o \in Ords |-> "none"]
  /\ evlog = <<>> /\ rsum = NoRsum /\ resets = 0

\* before Device("/dev/tenstorrent/0") is constructed: the device is at
\* ordinal 0, the other ordinals are empty or name another device
DevInit ==
  /\ pc = "new" /\ top = "none" /\ life = "Closed" /\ dexc = "none"
  /\ retried = FALSE /\ dmc = FALSE /\ fd = 0 /\ path = 0 /\ arch = "unset"
  /\ mm0 = NoMap /\ mm1 = NoMap /\ bdf = "none" /\ polls = 0
  /\ fdtab = [n \in FdNums |-> FreeFd] /\ gen = 0
  /\ nodes \in { nd \in [Ords -> {"none", "A", "B"}] :
                   /\ nd[0] = "A"
                   /\ \A o \in Ords : o # 0 => nd[o] # "A"
                   /\ Cardinality({ o \in Ords : nd[o] = "B" }) <= 1 }
  /\ evlog = <<>> /\ rsum = NoRsum /\ resets = 0

\* an exception leaves the running call: out of __init__ no Device exists;
\* out of reset() or close() the client keeps the object
Propagate(e) ==
  /\ dexc' = e
  /\ pc' = IF e = "SystemExit" THEN "exited"
           ELSE IF top = "init" THEN "ctor_failed" ELSE "idle"

\* device.py:194-195: mmap.close() on a mapping that exists
CloseMap(mm) == IF mm.st = "unset" THEN mm ELSE [st |-> "closed", gen |-> 0]

\* device.py:219-220: mmap.mmap(self.fd, ...) duplicates the descriptor and
\* holds the duplicate for as long as the mapping is open
DupFd(tab, n) ==
  [tab EXCEPT ![LowestFree(tab)] = [kind |-> "dup", dev |-> tab[n].dev, gen |-> tab[n].gen]]

\* device.py:194-195: mmap.close() closes the duplicate of each mapping
CloseDups(tab) == [n \in FdNums |-> IF tab[n].kind = "dup" THEN FreeFd ELSE tab[n]]

\* mutant: _close leaves the descriptor open
CloseFd_Keep(tab, n) == tab

\* device.py:181, 187, 196: os.close(self.fd) on an open descriptor
CloseFd(tab, n) == [tab EXCEPT ![n] = FreeFd]

(* ------------------------------ __init__ ------------------------------ *)
\* device.py:63-64: self.fd = os.open(self.path, ...)
Open ==
  /\ pc = "new"
  /\ top' = "init"
  /\ evlog' = <<>>
  /\ \/ /\ nodes[path] # "none" /\ HasFree(fdtab)
        /\ fd' = LowestFree(fdtab)
        /\ gen' = gen + 1
        /\ fdtab' = [fdtab EXCEPT ![LowestFree(fdtab)] =
                       [kind |-> "dev", dev |-> nodes[path], gen |-> gen + 1]]
        /\ life' = "Validating"
        /\ retried' = FALSE
        /\ pc' = "setup"
        /\ UNCHANGED dexc
     \/ /\ dexc' = "OSError"
        /\ pc' = "ctor_failed"
        /\ UNCHANGED <<fd, gen, fdtab, life, retried>>
  /\ UNCHANGED <<dmc, path, arch, mm0, mm1, bdf, polls, nodes, rsum>>
  /\ UNCHANGED resets
  /\ UNCHANGED notDev

(* ------------------------------- _setup ------------------------------- *)
\* device.py:183: what input() gives: a line that is 'y' in either case,
\* another line, or end of file on stdin (EOFError)
Answers == {"y", "n", "EOF"}

\* device.py:178-182, 190: read the card type; a supported one goes on to
\* map the BARs; an unsupported one closes and exits on the retried attempt
\* and is put to the user on the first
SetupValidate ==
  /\ pc = "setup"
  /\ \E a \in Archs \cup {"unreadable"} :
       /\ arch' = IF a = "unreadable" THEN arch ELSE a
       /\ IF a = "unreadable"
          THEN \* device.py:263: the sysfs file cannot be read
               /\ Propagate("OSError")
               /\ life' = "Failed"
               /\ rsum' = [rsum EXCEPT !.faulted = TRUE]
               /\ UNCHANGED <<fdtab, evlog>>
          ELSE IF a \in SupportedArchs
          THEN /\ pc' = "map_bars"
               /\ UNCHANGED <<dexc, fdtab, rsum, life>>
               /\ evlog' = Append(evlog, <<"setup", retried>>)
          ELSE IF retried
          THEN /\ fdtab' = CloseFd(fdtab, fd)
               /\ Propagate("SystemExit")
               /\ life' = "Closed"
               /\ rsum' = [rsum EXCEPT !.faulted = TRUE]
               /\ evlog' = evlog \o << <<"setup", retried>>,
                                       <<"close_fd", fdtab[fd].kind, fdtab[fd].gen>> >>
          ELSE /\ pc' = "setup_ask"
               /\ evlog' = Append(evlog, <<"setup", retried>>)
               /\ UNCHANGED <<dexc, fdtab, rsum, life>>
  /\ UNCHANGED <<top, retried, dmc, fd, path, mm0, mm1, bdf, polls, gen, nodes>>
  /\ UNCHANGED resets
  /\ UNCHANGED notDev

\* device.py:183-188: input() returns or raises; 'y' starts
\* reset(dmc_reset=True), any other line closes the descriptor and exits,
\* EOFError leaves _setup with the descriptor open
SetupConfirm ==
  /\ pc = "setup_ask"
  /\ \E confirm \in Answers :
       /\ evlog' = evlog \o << <<"input", confirm>> >> \o
                     (IF confirm = "n"
                      THEN << <<"close_fd", fdtab[fd].kind, fdtab[fd].gen>> >>
                      ELSE <<>>)
       /\ IF confirm = "EOF"
          THEN /\ Propagate("EOFError")
               /\ life' = "Failed"
               /\ rsum' = [rsum EXCEPT !.faulted = TRUE]
               /\ UNCHANGED <<fdtab, dmc>>
          ELSE IF confirm = "y"
          THEN /\ pc' = "reset"
               /\ dmc' = TRUE
               /\ UNCHANGED <<dexc, fdtab, rsum, life>>
          ELSE /\ fdtab' = CloseFd(fdtab, fd)
               /\ Propagate("SystemExit")
               /\ life' = "Closed"
               /\ rsum' = [rsum EXCEPT !.faulted = TRUE]
               /\ UNCHANGED dmc
  /\ UNCHANGED <<top, retried, arch, fd, path, mm0, mm1, bdf, polls, gen, nodes>>
  /\ UNCHANGED resets
  /\ UNCHANGED notDev

\* mutant: only the first BAR is mapped
MapBarsResult_OnlyBar0(m0, m1, g) == <<[st |-> "live", gen |-> g], m1>>

\* device.py:219-220: the two mmap calls over self.fd
MapBarsResult(m0, m1, g) == <<[st |-> "live", gen |-> g], [st |-> "live", gen |-> g]>>

\* where a call that has finished its work returns to: reset() called by
\* _setup returns into __init__ (device.py:185-186 then 66), as does _setup
AfterSetup == IF top = "init" THEN "bringup" ELSE "idle"

\* device.py:190-191 and 208-221: get_bdf for the log line, then _map_bars:
\* the query ioctl and the two mmaps; any of them may fail, and an mmap
\* fails when no descriptor number is left for its duplicate
MapBars ==
  /\ pc = "map_bars"
  /\ \/ /\ FreeFds(fdtab) >= 2
        /\ LET r == MapBarsResult(mm0, mm1, fdtab[fd].gen)
               t == IF r[1].st = "live" THEN DupFd(fdtab, fd) ELSE fdtab
           IN  /\ mm0' = r[1]
               /\ mm1' = r[2]
               /\ fdtab' = IF r[2].st = "live" THEN DupFd(t, fd) ELSE t
        /\ life' = "Mapped"
        /\ pc' = AfterSetup
        /\ dexc' = "none"
        /\ evlog' = evlog \o << <<"get_bdf", fdtab[fd].gen>>, <<"map_bars", fdtab[fd].gen>> >>
        /\ UNCHANGED rsum
     \/ \* get_bdf fails
        /\ Propagate("OSError")
        /\ life' = "Failed"
        /\ rsum' = [rsum EXCEPT !.faulted = TRUE]
        /\ UNCHANGED <<mm0, mm1, fdtab, evlog>>
     \/ \* the query ioctl or the first mmap fails
        /\ Propagate("OSError")
        /\ life' = "Failed"
        /\ rsum' = [rsum EXCEPT !.faulted = TRUE]
        /\ evlog' = Append(evlog, <<"get_bdf", fdtab[fd].gen>>)
        /\ UNCHANGED <<mm0, mm1, fdtab>>
     \/ \* the second mmap fails
        /\ HasFree(fdtab)
        /\ mm0' = [st |-> "live", gen |-> fdtab[fd].gen]
        /\ fdtab' = DupFd(fdtab, fd)
        /\ Propagate("OSError")
        /\ life' = "Failed"
        /\ rsum' = [rsum EXCEPT !.faulted = TRUE]
        /\ evlog' = Append(evlog, <<"get_bdf", fdtab[fd].gen>>)
        /\ UNCHANGED mm1
  /\ UNCHANGED <<top, retried, dmc, fd, path, arch, bdf, polls, gen, nodes>>
  /\ UNCHANGED resets
  /\ UNCHANGED notDev

\* the telemetry words (tensix_enabled, eth_enabled, gddr_enabled) of the
\* cards constructed: columns 3 and 12 and bank 0 off with no ethernet, and
\* columns 2 and 16 and bank 7 off
BringupWords == { <<15855, 0, 254>>, <<16377, 16383, 127>> }

\* how lines 66-71 may fail: the exception, whether get_harvesting had
\* returned (self.harvesting and self.tiles are assigned), and whether the
\* window of get_harvesting and that of upload_firmware were acquired.
\* get_harvesting: the window cannot be acquired or fails (OSError), the
\* telemetry pointer is invalid (RuntimeError), an assertion fails.
\* upload_firmware: an image cannot be read (OSError) or parsed (ValueError,
\* struct.error of load_pt_load), the window cannot be acquired or fails
\* (OSError), remap_addr's assertion fails.
BringupFailures ==
  { [e |-> "OSError", got |-> FALSE, arc |-> 0, fw |-> 0] }
  \cup { [e |-> x, got |-> FALSE, arc |-> 1, fw |-> 0] :
           x \in {"OSError", "RuntimeError", "AssertionError"} }
  \cup { [e |-> x, got |-> TRUE, arc |-> 1, fw |-> 0] :
           x \in {"OSError", "ValueError", "struct.error"} }
  \cup { [e |-> x, got |-> TRUE, arc |-> 1, fw |-> 1] :
           x \in {"OSError", "AssertionError"} }

\* device.py:66-71: get_harvesting, from_harvesting and upload_firmware, as
\* SpecBringup models them step by step: they return, or one of them raises;
\* either way every window they acquired has been released. The window
\* traffic itself (wlog) is recorded in SpecBringup only.
Bringup ==
  /\ pc = "bringup"
  /\ \E w \in BringupWords :
       LET h == DecodeHarvesting(w[1], w[2], w[3]).val
       IN  \/ /\ pc' = "idle"
              /\ dexc' = "none"
              /\ harvesting' = h
              /\ tiles' = from_harvesting(h)
              /\ acq' = [x \in WinIds |-> 1]
              /\ rel' = [x \in WinIds |-> 1]
           \/ /\ pc' = "ctor_failed"
              /\ \E f \in BringupFailures :
                   /\ dexc' = f.e
                   /\ harvesting' = IF f.got THEN h ELSE harvesting
                   /\ tiles' = IF f.got THEN from_harvesting(h) ELSE tiles
                   /\ acq' = [x \in WinIds |-> IF x = "arc" THEN f.arc ELSE f.fw]
                   /\ rel' = [x \in WinIds |-> IF x = "arc" THEN f.arc ELSE f.fw]
  /\ UNCHANGED <<top, life, retried, dmc, fd, path, arch, mm0, mm1, bdf, polls, fdtab,
                 gen, nodes, evlog, rsum>>
  /\ UNCHANGED resets
  /\ UNCHANGED <<bpc, exc, slots, wlog, hl, fws, cfg, ul>>
  /\ UNCHANGED fnVars

(* ------------------------ helpers.find_dev_by_bdf ---------------------- *)
\* what the environment makes of one candidate: "ok", or its os.open fails,
\* or its get-device-info ioctl fails
Faults == {"ok", "open_fails", "ioctl_fails"}

\* helpers.py:42-51: the ioctl raises OSError after os.open succeeded: the
\* except clause returns None and os.close(fd) on line 48 has not run
ProbeIoctlFails(tab, d) ==
  [tab EXCEPT ![LowestFree(tab)] = [kind |-> "probe", dev |-> d, gen |-> 0]]

\* helpers.py:40-51: the BDF the candidate at ordinal o reports ("None" on
\* OSError) and the descriptor table afterwards
_get_bdf_for_path(o, nd, f, tab) ==
  IF f = "open_fails" \/ ~HasFree(tab) THEN [bdf |-> "None", tab |-> tab]
  ELSE IF f = "ioctl_fails" THEN [bdf |-> "None", tab |-> ProbeIoctlFails(tab, nd[o])]
  ELSE [bdf |-> nd[o], tab |-> tab]

\* mutant: the first listed candidate is taken whatever BDF it reports
FindFrom_AnyBdf(entries, target_bdf, nd, flt, tab) ==
  IF entries # <<>> THEN [path |-> Head(entries), tab |-> tab]
  ELSE [path |-> -1, tab |-> tab]

\* helpers.py:54-58: the loop over the entries still to visit, stopping at
\* the first whose BDF is the target; path -1 is None
RECURSIVE FindFrom(_, _, _, _, _)
FindFrom(entries, target_bdf, nd, flt, tab) ==
  IF entries = <<>> THEN [path |-> -1, tab |-> tab]
  ELSE LET o == Head(entries)
           r == _get_bdf_for_path(o, nd, flt[o], tab)
       IN  IF r.bdf = target_bdf THEN [path |-> o, tab |-> r.tab]
           ELSE FindFrom(Tail(entries), target_bdf, nd, flt, r.tab)

\* helpers.py:54: os.listdir("/dev/tenstorrent"): the device files there
\* are, in an order the file system chooses; with no device file left the
\* directory may be gone, and os.listdir raises OSError (FileNotFoundError)
Listdir(nd) ==
  LET present == { o \in Ords : nd[o] # "none" }
      n == Cardinality(present)
  IN  { [err |-> "none", entries |-> [i \in 1..n |-> f[i]]] :
          f \in { g \in [1..n -> present] :
                    \A i, j \in 1..n : i # j => g[i] # g[j] } }
      \cup (IF present = {} THEN { [err |-> "OSError", entries |-> <<>>] } ELSE {})

\* helpers.py:53-58 on what os.listdir gave: its OSError is not caught and
\* leaves find_dev_by_bdf before any candidate is opened
find_dev_by_bdf(target_bdf, nd, flt, tab, listing) ==
  IF listing.err # "none" THEN [err |-> listing.err, path |-> -1, tab |-> tab]
  ELSE LET r == FindFrom(listing.entries, target_bdf, nd, flt, tab)
       IN  [err |-> "none", path |-> r.path, tab |-> r.tab]

\* the device d is not listed
Without(nd, d) == [o \in Ords |-> IF nd[o] = d THEN "none" ELSE nd[o]]
\* where the device under reset may be when a probe runs: nowhere yet, or
\* under any ordinal no other device has
Placements(nd, d) ==
  {Without(nd, d)} \cup
  { [Without(nd, d) EXCEPT ![o] = d] : o \in { q \in Ords : Without(nd, d)[q] = "none" } }
\* q is listed before o
ListedBefore(listing, q, o) ==
  \E i, j \in DOMAIN listing : i < j /\ listing[i] = q /\ listing[j] = o

\* the faults of one probe, one choice per outcome: a fault is chosen only
\* for a candidate that is listed and is reached (no candidate listed before
\* it matches), a failing os.open only where it changes what the probe
\* returns (on the target's file); the probes leave at most MaxLeak
\* descriptors open
FaultChoices(nd, target_bdf, tab, listing) ==
  { flt \in [Ords -> Faults] :
      /\ \A o \in Ords : flt[o] # "ok" =>
            /\ nd[o] # "none"
            /\ \A q \in Ords : ListedBefore(listing, q, o) =>
                  ~(nd[q] = target_bdf /\ flt[q] = "ok")
      /\ \A o \in Ords : flt[o] = "open_fails" => nd[o] = target_bdf
      /\ Leaked(tab) + Cardinality({ o \in Ords : flt[o] = "ioctl_fails" }) <= MaxLeak }

(* -------------------------------- reset -------------------------------- *)
\* the client calls reset(dmc_reset) on the Device it holds
ResetCall ==
  /\ pc = "idle"
  /\ resets < MaxResets
  /\ resets' = resets + 1
  /\ retried' = FALSE
  /\ top' = "reset"
  /\ pc' = "reset"
  /\ dmc' \in BOOLEAN
  /\ dexc' = "none"
  /\ evlog' = <<>>
  /\ rsum' = [fromMapped |-> life = "Mapped",
              preGen |-> IF IsOpen(fdtab, fd) THEN fdtab[fd].gen ELSE 0,
              foundAt |-> 0, faulted |-> FALSE]
  /\ UNCHANGED <<life, fd, path, arch, mm0, mm1, bdf, polls, fdtab, gen, nodes>>
  /\ UNCHANGED notDev

\* what a failure before the reset ioctl has taken effect leaves: the
\* device as it was, unless the reset was part of the construction
UntouchedLife == IF top = "init" THEN "Failed" ELSE life

\* device.py:224: bdf = self.get_bdf()
ResetGetBdf ==
  /\ pc = "reset"
  /\ \/ /\ IsOpen(fdtab, fd)
        /\ bdf' = fdtab[fd].dev
        /\ pc' = "reset_ioctl"
        /\ evlog' = Append(evlog, <<"get_bdf", fdtab[fd].gen>>)
        /\ UNCHANGED <<dexc, life>>
     \/ \* EBADF on a descriptor that is not open, or the ioctl fails
        /\ Propagate("OSError")
        /\ life' = UntouchedLife
        /\ UNCHANGED <<bdf, evlog>>
  /\ UNCHANGED <<top, retried, dmc, fd, path, arch, mm0, mm1, polls, fdtab, gen, nodes,
                 rsum>>
  /\ UNCHANGED resets
  /\ UNCHANGED notDev

\* mutant: the two reset flags exchanged
ResetFlag_Swapped(dmc_reset) ==
  IF dmc_reset THEN TENSTORRENT_RESET_DEVICE_ASIC_RESET
  ELSE TENSTORRENT_RESET_DEVICE_ASIC_DMC_RESET

\* device.py:231: the flag of the reset ioctl
ResetFlag(dmc_reset) ==
  IF dmc_reset THEN TENSTORRENT_RESET_DEVICE_ASIC_DMC_RESET
  ELSE TENSTORRENT_RESET_DEVICE_ASIC_RESET

\* device.py:233: the reset ioctl on self.fd; the device it resets leaves
\* /dev/tenstorrent until it has re-enumerated
ResetIoctl ==
  /\ pc = "reset_ioctl"
  /\ \/ /\ IsOpen(fdtab, fd)
        /\ nodes' = Without(nodes, fdtab[fd].dev)
        /\ life' = "Resetting"
        /\ pc' = "reset_close"
        /\ evlog' = Append(evlog, <<"reset_ioctl", ResetFlag(dmc), fdtab[fd].gen>>)
        /\ UNCHANGED dexc
     \/ /\ Propagate("OSError")
        /\ life' = UntouchedLife
        /\ UNCHANGED <<nodes, evlog>>
  /\ UNCHANGED <<top, retried, dmc, fd, path, arch, mm0, mm1, bdf, polls, fdtab, gen,
                 rsum>>
  /\ UNCHANGED resets
  /\ UNCHANGED notDev

\* device.py:234: self._close()
ResetClose ==
  /\ pc = "reset_close"
  /\ mm0' = CloseMap(mm0)
  /\ mm1' = CloseMap(mm1)
  /\ IF IsOpen(CloseDups(fdtab), fd)
     THEN /\ fdtab' = CloseFd(CloseDups(fdtab), fd)
          /\ evlog' = evlog \o << <<"unmap_bars">>,
                                  <<"close_fd", fdtab[fd].kind, fdtab[fd].gen>> >>
          /\ life' = "Waiting"
          /\ polls' = 0
          /\ pc' = "reset_poll"
          /\ UNCHANGED dexc
     ELSE /\ Propagate("OSError")
          /\ fdtab' = CloseDups(fdtab)
          /\ evlog' = evlog \o << <<"unmap_bars">>, <<"close_fd", "free", 0>> >>
          /\ life' = "Failed"
          /\ UNCHANGED polls
  /\ UNCHANGED <<top, retried, dmc, fd, path, arch, bdf, gen, nodes, rsum>>
  /\ UNCHANGED resets
  /\ UNCHANGED notDev

\* the probe that found the device, as rsum keeps it: 1, 2, 3, or 4 for
\* any later one
FoundAt(k) == IF k <= 3 THEN k ELSE 4

\* device.py:238-242: one iteration of the poll loop: sleep, then
\* find_dev_by_bdf(bdf) over the device files there are by then
ResetPoll ==
  /\ pc = "reset_poll"
  /\ polls < PollLimit
  /\ \E nd \in Placements(nodes, bdf) : \E listing \in Listdir(nd) :
     \E flt \in FaultChoices(nd, bdf, fdtab, listing.entries) :
       LET r == find_dev_by_bdf(bdf, nd, flt, fdtab, listing)
       IN  /\ nodes' = nd
           /\ fdtab' = r.tab
           /\ IF r.err # "none"
              THEN \* the OSError of os.listdir leaves the loop and reset()
                   /\ Propagate(r.err)
                   /\ life' = "Failed"
                   /\ polls' = 0
                   /\ UNCHANGED <<path, rsum>>
              ELSE IF r.path # -1
              THEN \* break: the loop and its counter are left
                   /\ path' = r.path
                   /\ pc' = "reset_open"
                   /\ polls' = 0
                   /\ rsum' = [rsum EXCEPT !.foundAt = FoundAt(polls + 1)]
                   /\ UNCHANGED <<life, dexc>>
              ELSE /\ polls' = polls + 1
                   /\ UNCHANGED <<path, pc, rsum, life, dexc>>
  /\ UNCHANGED <<top, retried, dmc, fd, arch, mm0, mm1, bdf, gen, evlog>>
  /\ UNCHANGED resets
  /\ UNCHANGED notDev

\* device.py:243-244: the else of the for loop
ResetTimeout ==
  /\ pc = "reset_poll"
  /\ polls = PollLimit
  /\ Propagate("RuntimeError")
  /\ life' = "Failed"
  /\ UNCHANGED <<top, retried, dmc, fd, path, arch, mm0, mm1, bdf, polls, fdtab, gen,
                 nodes, evlog, rsum>>
  /\ UNCHANGED resets
  /\ UNCHANGED notDev

\* device.py:247: self.fd = os.open(self.path, ...)
ResetOpen ==
  /\ pc = "reset_open"
  /\ \/ /\ nodes[path] # "none" /\ HasFree(fdtab)
        /\ fd' = LowestFree(fdtab)
        /\ gen' = gen + 1
        /\ fdtab' = [fdtab EXCEPT ![LowestFree(fdtab)] =
                       [kind |-> "dev", dev |-> nodes[path], gen |-> gen + 1]]
        /\ life' = "PostReset"
        /\ pc' = "reset_post"
        /\ evlog' = Append(evlog, <<"open", path, gen + 1>>)
        /\ UNCHANGED <<dexc, rsum>>
     \/ /\ Propagate("OSError")
        /\ life' = "Failed"
        /\ rsum' = [rsum EXCEPT !.faulted = TRUE]
        /\ UNCHANGED <<fd, gen, fdtab, evlog>>
  /\ UNCHANGED <<top, retried, dmc, path, arch, mm0, mm1, bdf, polls, nodes>>
  /\ UNCHANGED resets
  /\ UNCHANGED notDev

\* device.py:250-256: the POST_RESET ioctl on the new descriptor, then
\* line 258: self._setup(retried=True)
ResetPost ==
  /\ pc = "reset_post"
  /\ \/ /\ evlog' = Append(evlog, <<"reset_ioctl", TENSTORRENT_RESET_DEVICE_POST_RESET,
                                    fdtab[fd].gen>>)
        /\ retried' = TRUE
        /\ life' = "Validating"
        /\ pc' = "setup"
        /\ UNCHANGED <<dexc, rsum>>
     \/ /\ Propagate("OSError")
        /\ life' = "Failed"
        /\ rsum' = [rsum EXCEPT !.faulted = TRUE]
        /\ UNCHANGED <<retried, evlog>>
  /\ UNCHANGED <<top, dmc, fd, path, arch, mm0, mm1, bdf, polls, fdtab, gen, nodes>>
  /\ UNCHANGED resets
  /\ UNCHANGED notDev

(* -------------------------------- close -------------------------------- *)
\* device.py:265 and 193-196: the client calls close(): _close()
Close ==
  /\ pc = "idle"
  /\ top' = "close"
  /\ mm0' = CloseMap(mm0)
  /\ mm1' = CloseMap(mm1)
  /\ life' = "Closed"
  /\ IF IsOpen(CloseDups(fdtab), fd)
     THEN /\ fdtab' = CloseFd(CloseDups(fdtab), fd)
          /\ evlog' = << <<"unmap_bars">>, <<"close_fd", fdtab[fd].kind, fdtab[fd].gen>> >>
          /\ dexc' = "none"
     ELSE /\ fdtab' = CloseDups(fdtab)
          /\ evlog' = << <<"unmap_bars">>, <<"close_fd", "free", 0>> >>
          /\ dexc' = "OSError"
  /\ UNCHANGED <<pc, retried, dmc, fd, path, arch, bdf, polls, gen, nodes, rsum>>
  /\ UNCHANGED resets
  /\ UNCHANGED notDev

DevNext ==
  \/ Open \/ SetupValidate \/ SetupConfirm \/ MapBars \/ Bringup
  \/ ResetCall \/ ResetGetBdf \/ ResetIoctl \/ ResetClose \/ ResetPoll \/ ResetTimeout
  \/ ResetOpen \/ ResetPost
  \/ Close

(***************************************************************************)
(* The pure functions applied to inputs drawn from bounded sets            *)
(***************************************************************************)
MaxValue == 70        \* align_down: values 0..MaxValue
MaxAlignLog == 5      \* align_down: alignments 2^0 .. 2^MaxAlignLog
TensixMaskBits == 14  \* enabled-compute masks 0 .. 2^TensixMaskBits - 1
GddrMaskBits == 8     \* enabled-bank masks 0 .. 2^GddrMaskBits - 1
MaxAddr == 50         \* remap_addr: segment addresses 0..MaxAddr
MaxBase == 26         \* remap_addr: scratch bases 0..MaxBase

AlignValues == 0..MaxValue
Alignments == { Pow2(k) : k \in 0..MaxAlignLog }
AllTensixMasks == 0..(Pow2(TensixMaskBits) - 1)
AllGddrMasks == 0..(Pow2(GddrMaskBits) - 1)
\* 0x3DEF (columns 3 and 12 off), 0x3FF9 (16 and 2 off), one, three and no
\* column off, 0x13FF9 (a bit above the 14 set)
FewTensixMasks == {15855, 16377, 16382, 16376, 16383, 81913}
FewGddrMasks == {254, 127, 255, 252}
FewEthMasks == {0, 5, 16383}
\* arguments the dataclass constructor is called with
CtorCols == {3, 12, 16}
CtorTensixCols ==
  { <<a, b>> : a \in CtorCols, b \in CtorCols }
    \cup { <<a, b, c>> : a \in CtorCols, b \in CtorCols, c \in CtorCols }
CtorBanks == {0, 7}

\* ELF images the loader is applied to: a 52-byte ELF32 header, a table of
\* up to MaxPhnum program headers of 32 bytes, and MaxDataLen bytes of
\* segment data 161, 162, ...; an image may be cut one byte short of the end
\* of its header table.
MaxPhnum == 2         \* load_pt_load: program headers per image
MaxDataLen == 2       \* load_pt_load: bytes of segment data per image
ElfHeaderSize == 52

\* struct.pack of v into n little-endian bytes
RECURSIVE LE(_, _)
LE(v, n) == IF n = 0 THEN <<>> ELSE <<v % 256>> \o LE(v \div 256, n - 1)

Zeros(n) == [i \in 1..n |-> 0]

\* a program header: its type, the start of its file range counted from the
\* start of the segment data, and its sizes and address
PhChoices ==
  [p_type : {PT_LOAD, 2}, rel : 0..(MaxDataLen - 1), p_filesz : 0..MaxDataLen,
   p_paddr : {7}, extra : {0}]
  \cup
  [p_type : {PT_LOAD}, rel : 0..(MaxDataLen - 1), p_filesz : 0..MaxDataLen,
   p_paddr : {300}, extra : {4}]

RECURSIVE SeqsUpTo(_, _)
SeqsUpTo(S, n) ==
  IF n = 0 THEN {<<>>}
  ELSE LET shorter == SeqsUpTo(S, n - 1)
       IN  shorter \cup { Append(q, x) : q \in { t \in shorter : Len(t) = n - 1 }, x \in S }

DataStart(hdrs) == ElfHeaderSize + ProgramHeaderSize * Len(hdrs)
PhOffset(hdrs, i) == DataStart(hdrs) + hdrs[i].rel
PhMemsz(hdrs, i) == hdrs[i].p_filesz + hdrs[i].extra

PhBytes(hdrs, i) ==
  LE(hdrs[i].p_type, 4) \o LE(PhOffset(hdrs, i), 4) \o LE(9, 4)
    \o LE(hdrs[i].p_paddr, 4) \o LE(hdrs[i].p_filesz, 4) \o LE(PhMemsz(hdrs, i), 4)
    \o LE(5, 4) \o LE(16, 4)

RECURSIVE PhTable(_, _)
PhTable(hdrs, i) ==
  IF i > Len(hdrs) THEN <<>> ELSE PhBytes(hdrs, i) \o PhTable(hdrs, i + 1)

\* the bytes of the image described by hdrs; cut drops the segment data and
\* the last byte of the header table (of the ELF header when the table is
\* empty)
ElfFile(hdrs, cut) ==
  LET whole == Zeros(28) \o LE(ElfHeaderSize, 4) \o Zeros(10)
                 \o LE(ProgramHeaderSize, 2) \o LE(Len(hdrs), 2) \o Zeros(6)
                 \o PhTable(hdrs, 1)
                 \o [i \in 1..MaxDataLen |-> 160 + i]
  IN  IF cut
        THEN SubSeq(whole, 1, (IF Len(hdrs) = 0 THEN 46 ELSE DataStart(hdrs)) - 1)
        ELSE whole

\* the inputs each function is applied to
FnInputs(f) ==
  CASE f = "align_down" -> AlignValues \X Alignments
    [] f = "decode_harvesting" ->
         (FewTensixMasks \X FewEthMasks \X AllGddrMasks)
         \cup (AllTensixMasks \X {0} \X {254, 252})
    [] f = "Harvesting" -> CtorTensixCols \X CtorBanks \X BOOLEAN
    [] f = "from_harvesting" ->
         { p \in (0..max_x) \X (0..max_x) : p[1] # p[2] }
    [] f = "remap_addr" -> (0..MaxAddr) \X (0..MaxBase)
    [] f = "load_pt_load" -> SeqsUpTo(PhChoices, MaxPhnum) \X BOOLEAN
    [] f = "shuffle_tensix_harvesting_mask" ->
         { <<m>> : m \in AllTensixMasks \cup {81913} }

FnNames == {"align_down", "decode_harvesting", "Harvesting", "from_harvesting",
            "remap_addr", "load_pt_load", "shuffle_tensix_harvesting_mask"}

FnIdle == fn = "none" /\ arg = <<>> /\ called = FALSE /\ res = <<>>

FnInit ==
  /\ fn \in FnNames
  /\ arg \in FnInputs(fn)
  /\ called = FALSE
  /\ res = <<>>

CallAlignDown ==
  /\ fn = "align_down" /\ ~called
  /\ called' = TRUE
  /\ res' = align_down(arg[1], arg[2])
  /\ UNCHANGED <<fn, arg>>
  /\ UNCHANGED notFn

\* the decoding of get_harvesting on the three words read from telemetry
CallDecodeHarvesting ==
  /\ fn = "decode_harvesting" /\ ~called
  /\ called' = TRUE
  /\ res' = [tensix_off |-> tensix_off(arg[1]), dram_off |-> dram_off(arg[3]),
             out |-> DecodeHarvesting(arg[1], arg[2], arg[3])]
  /\ UNCHANGED <<fn, arg>>
  /\ UNCHANGED notFn

CallHarvesting ==
  /\ fn = "Harvesting" /\ ~called
  /\ called' = TRUE
  /\ res' = [err |-> "none", val |-> Harvesting(arg[1], arg[2], arg[3])]
  /\ UNCHANGED <<fn, arg>>
  /\ UNCHANGED notFn

CallFromHarvesting ==
  /\ fn = "from_harvesting" /\ ~called
  /\ called' = TRUE
  /\ res' = from_harvesting(Harvesting(<<arg[1], arg[2]>>, 0, FALSE))
  /\ UNCHANGED <<fn, arg>>
  /\ UNCHANGED notFn

CallRemapAddr ==
  /\ fn = "remap_addr" /\ ~called
  /\ called' = TRUE
  /\ res' = remap_addr(arg[1], arg[2])
  /\ UNCHANGED <<fn, arg>>
  /\ UNCHANGED notFn

CallLoadPtLoad ==
  /\ fn = "load_pt_load" /\ ~called
  /\ called' = TRUE
  /\ res' = load_pt_load(ElfFile(arg[1], arg[2]))
  /\ UNCHANGED <<fn, arg>>
  /\ UNCHANGED notFn

\* both variants on one enabled-compute word: the columns device.py:165
\* derives, and the mask main.py:137 builds from its complement
CallShuffle ==
  /\ fn = "shuffle_tensix_harvesting_mask" /\ ~called
  /\ called' = TRUE
  /\ res' = [tensix_off |-> tensix_off(arg[1]),
             raw |-> AndNot(16383, arg[1]),
             tensix |-> main_tensix_harvesting(arg[1])]
  /\ UNCHANGED <<fn, arg>>
  /\ UNCHANGED notFn

FnNext ==
  \/ CallAlignDown
  \/ CallDecodeHarvesting
  \/ CallHarvesting
  \/ CallFromHarvesting
  \/ CallRemapAddr
  \/ CallLoadPtLoad
  \/ CallShuffle

FnSpecInit == FnInit /\ BringIdle /\ DevIdle

\* the pure functions on their inputs
SpecFn == FnSpecInit /\ [][FnNext]_vars

BringSpecInit == FnIdle /\ BringInit /\ DevIdle

\* the bring-up of a mapped device
SpecBringup == BringSpecInit /\ [][BringNext]_vars

\* the Device through its construction and any calls of reset() and close()
DevSpecInit == FnIdle /\ BringIdle /\ DevInit
Spec == DevSpecInit /\ [][DevNext]_vars

(***************************************************************************)
(* Claims about the pure functions (checked under SpecFn)                  *)
(***************************************************************************)

\* C5: for two distinct harvested columns, the multicast ranges of
\* TileGrid.from_harvesting each have start <= end, are sorted ascending and
\* pairwise disjoint, and the columns they cover are exactly the columns of
\* 0..16 other than 0, 9, 8 and the two harvested ones.
C5_McastRangesPartitionValidColumns ==
  (fn = "from_harvesting" /\ called) =>
    LET r == res.tensix_mcast
        valid == { x \in 0..16 : x \notin {0, 9, 8, arg[1], arg[2]} }
    IN  /\ \A i \in 1..Len(r) : r[i][1] <= r[i][2]
        /\ \A i \in 1..Len(r) : \A j \in 1..Len(r) :
             i < j => r[i][2] < r[j][1]
        /\ UNION { r[i][1]..r[i][2] : i \in 1..Len(r) } = valid

\* C5 witness: columns 3 and 12 harvested give the four ranges
\* (1,2) (4,7) (10,11) (13,16)
C5_Witness ==
  /\ fn = "from_harvesting" /\ called
  /\ arg = <<3, 12>>
  /\ res.tensix_mcast = <<(<<1, 2>>), <<4, 7>>, <<10, 11>>, <<13, 16>>>>

\* C6 (as claimed): get_harvesting returns a record only with two distinct
\* disabled columns and one disabled bank, and every Harvesting value that
\* is constructed has exactly two (distinct) disabled columns.
C6_EveryHarvestingHasTwoColumnsOneBank ==
  /\ (fn = "decode_harvesting" /\ called /\ res.out.err = "none") =>
       /\ Len(res.out.val.tensix_cols) = 2
       /\ res.out.val.tensix_cols[1] # res.out.val.tensix_cols[2]
       /\ Len(res.dram_off) = 1
       /\ res.out.val.dram_bank = res.dram_off[1]
  /\ (fn = "Harvesting" /\ called /\ res.err = "none") =>
       /\ Len(res.val.tensix_cols) = 2
       /\ res.val.tensix_cols[1] # res.val.tensix_cols[2]

\* C7: remap_addr maps an address of the alias range to
\* (address - LOCAL_RAM_START) + scratch base, and either that lies in
\* [scratch base, scratch base + TensixL1.SIZE) or the call fails its
\* assertion; any other address is returned unchanged.
C7_RemapIntoScratchOrUnchanged ==
  (fn = "remap_addr" /\ called) =>
    LET addr == arg[1]
        base == arg[2]
    IN  IF TensixMMIO_LOCAL_RAM_START <= addr /\ addr <= TensixMMIO_LOCAL_RAM_END
        THEN \/ res.err = "AssertionError"
             \/ /\ res.err = "none"
                /\ res.addr = (addr - TensixMMIO_LOCAL_RAM_START) + base
                /\ base <= res.addr /\ res.addr < base + TensixL1_SIZE
        ELSE res.err = "none" /\ res.addr = addr

\* C7 witness: an aliased address is translated
C7_Witness ==
  /\ fn = "remap_addr" /\ called
  /\ arg = <<43, 12>>
  /\ res = [err |-> "none", addr |-> 15]

\* C8: for value >= 0 and a power-of-two alignment, align_down returns
\* (base, remainder) with base <= value, base % alignment = 0,
\* base + remainder = value and 0 <= remainder < alignment.
C8_AlignDown ==
  (fn = "align_down" /\ called) =>
    LET value == arg[1]
        alignment == arg[2]
        base == res[1]
        remainder == res[2]
    IN  /\ base <= value
        /\ base % alignment = 0
        /\ base + remainder = value
        /\ 0 <= remainder /\ remainder < alignment

\* C8 witness: 37 aligned down to 8 is (32, 5)
C8_Witness ==
  /\ fn = "align_down" /\ called
  /\ arg = <<37, 8>>
  /\ res = <<32, 5>>

\* C9: the disabled columns are the entries of the table
\* [1,16,2,15,3,14,4,13,5,12,6,11,7,10] at the clear bit positions 0..13 of
\* the enabled-compute mask, in ascending order (mask 0x3DEF gives (3, 12));
\* the disabled banks are the bank numbers 0..7 whose bit is clear in the
\* enabled-bank mask.
C9_DisabledColumnsAndBanks ==
  (fn = "decode_harvesting" /\ called) =>
    LET table == <<1, 16, 2, 15, 3, 14, 4, 13, 5, 12, 6, 11, 7, 10>>
        t == res.tensix_off
        d == res.dram_off
        clear(m, pos) == (m \div Pow2(pos)) % 2 = 0
    IN  /\ Range(t) = { table[pos + 1] : pos \in { q \in 0..13 : clear(arg[1], q) } }
        /\ \A i \in 1..Len(t) : \A j \in 1..Len(t) : i < j => t[i] < t[j]
        /\ arg[1] = 15855 => t = <<3, 12>>
        /\ Range(d) = { b \in 0..7 : clear(arg[3], b) }
        /\ Len(d) = Cardinality(Range(d))

\* C9 witness: mask 0x3FF9 clears positions 1 and 2, whose table entries 16
\* and 2 come back in ascending order
C9_Witness ==
  /\ fn = "decode_harvesting" /\ called
  /\ arg[1] = 16377 /\ arg[3] = 254
  /\ res.tensix_off = <<2, 16>>
  /\ res.dram_off = <<0>>

(***************************************************************************)
(* Claims about the bring-up (checked under SpecBringup)                   *)
(***************************************************************************)
IsPrefix(a, b) == Len(a) <= Len(b) /\ \A i \in 1..Len(a) : a[i] = b[i]

\* the writes of wlog that went to the multicast column range r
RangeWrites(r) ==
  SelectSeq(wlog, LAMBDA e : /\ e.op \in {"writei32", "write"}
                             /\ e.start[1] = r[1] /\ e.end[1] = r[2])

\* the segment writes the claim expects for range r from image fi, segment
\* si on: every non-empty segment, in order, in ordered-bulk mode, at its
\* remapped address
RECURSIVE ExpectedSegWrites(_, _, _)
ExpectedSegWrites(r, fi, si) ==
  IF fi > Len(fws) THEN <<>>
  ELSE IF si > Len(fws[fi]) THEN ExpectedSegWrites(r, fi + 1, 1)
  ELSE LET paddr == fws[fi][si][1]
           n == fws[fi][si][2]
           target == IF TensixMMIO_LOCAL_RAM_START <= paddr /\ paddr <= TensixMMIO_LOCAL_RAM_END
                     THEN (paddr - TensixMMIO_LOCAL_RAM_START) + FwInitBase[fi]
                     ELSE paddr
       IN  (IF n = 0 THEN <<>>
            ELSE <<[op |-> "write", win |-> "fw", start |-> <<r[1], 2>>,
                    end |-> <<r[2], 11>>, addr |-> target,
                    mode |-> "ORDERED_BULK", len |-> n, fw |-> FwNames[fi]]>>)
           \o ExpectedSegWrites(r, fi, si + 1)

ExpectedResetWrite(r, v) ==
  [op |-> "writei32", win |-> "fw", start |-> <<r[1], 2>>, end |-> <<r[2], 11>>,
   addr |-> TensixMMIO_RISCV_DEBUG_REG_SOFT_RESET_0, mode |-> "STRICT", val |-> v]

ExpectedWrites(r) ==
  <<ExpectedResetWrite(r, TensixMMIO_SOFT_RESET_ALL)>>
    \o ExpectedSegWrites(r, 1, 1)
    \o <<ExpectedResetWrite(r, 0)>>

\* C1: in upload_firmware the writes to each multicast column range are, in
\* this order, one strict-mode write of the assert-reset value to the reset
\* register, the ordered-bulk writes of every non-empty segment of every
\* image at its remapped address, and one strict-mode write of 0 to the reset
\* register: at every moment the writes issued to a range are a prefix of
\* that sequence, all of it once the range is finished, and nothing is
\* written to any other range.
C1_UploadOrderPerRange ==
  /\ \A k \in 1..Len(tiles.tensix_mcast) :
       LET r == tiles.tensix_mcast[k]
       IN  /\ IsPrefix(RangeWrites(r), ExpectedWrites(r))
           /\ (bpc = "done" \/ k < ul.ri) => RangeWrites(r) = ExpectedWrites(r)
  /\ \A i \in 1..Len(wlog) :
       wlog[i].op \in {"writei32", "write"} =>
         \E k \in 1..Len(tiles.tensix_mcast) :
           /\ wlog[i].start[1] = tiles.tensix_mcast[k][1]
           /\ wlog[i].end[1] = tiles.tensix_mcast[k][2]

\* C1 witness: an upload that finished over four ranges, skipped an empty
\* segment and wrote an aliased one
C1_Witness ==
  /\ bpc = "done"
  /\ Len(tiles.tensix_mcast) = 4
  /\ \E fi \in 1..Len(fws) : \E si \in 1..Len(fws[fi]) : fws[fi][si][2] = 0
  /\ \E i \in 1..Len(wlog) : wlog[i].op = "write" /\ wlog[i].mode = "ORDERED_BULK"

\* C2: a window acquired by get_harvesting or upload_firmware is released
\* exactly once on every way out: no window is released more often than it
\* was acquired, and outside the with blocks (before, between and after the
\* two operations, however they ended) every acquired window has been
\* released and no kernel slot is allocated.
C2_WindowsReleasedOnEveryExit ==
  /\ \A w \in WinIds : rel[w] <= acq[w] /\ acq[w] <= 1
  /\ slots = (acq["arc"] - rel["arc"]) + (acq["fw"] - rel["fw"])
  /\ bpc \in {"get_harvesting", "from_harvesting", "upload_firmware", "u_acquire",
              "done", "raised"} =>
       /\ \A w \in WinIds : rel[w] = acq[w]
       /\ slots = 0

\* C2 witness: upload_firmware ended by the failed bounds assertion of
\* remap_addr with both windows acquired and released
C2_Witness ==
  /\ bpc = "raised" /\ exc = "AssertionError"
  /\ acq["arc"] = 1 /\ rel["arc"] = 1
  /\ acq["fw"] = 1 /\ rel["fw"] = 1


(***************************************************************************)
(* Claims about the Device lifecycle, checked under Spec.                  *)
(***************************************************************************)
\* the Device holds an open descriptor of its own, both BARs are live
\* mappings over it, and the architecture is a supported one
MappedOverCurrentFd ==
  /\ IsOpen(fdtab, fd)
  /\ fdtab[fd].kind = "dev"
  /\ mm0 = [st |-> "live", gen |-> fdtab[fd].gen]
  /\ mm1 = [st |-> "live", gen |-> fdtab[fd].gen]
  /\ arch \in SupportedArchs

\* the descriptor held was opened after the one held when reset() was
\* called had been closed, and that one is open no more
FreshDescriptor ==
  /\ IsOpen(fdtab, fd)
  /\ fdtab[fd].gen > rsum.preGen
  /\ \A n \in FdNums : IsOpen(fdtab, n) => fdtab[n].gen # rsum.preGen
  /\ \E i, j \in 1..Len(evlog) :
       /\ i < j
       /\ evlog[i] = <<"close_fd", "dev", rsum.preGen>>
       /\ evlog[j] = <<"open", path, fdtab[fd].gen>>

\* reset() was called by the client on a Mapped device and one of the first
\* three probes found a device file with the pre-reset BDF
ResetFoundWithin3 == top = "reset" /\ rsum.fromMapped /\ rsum.foundAt \in 1..3

\* the environment after the match is the one C3 and the spec's test take:
\* a re-enumeration source that brings the card back, on which the reopen,
\* the POST_RESET ioctl, the card-type read and the BAR mapping are not made
\* to fail and the card reports a supported type. rsum.faulted records that
\* the environment chose otherwise at one of those steps.
SourceBroughtCardBack == ~rsum.faulted

C4_TimeoutLeavesNoDescriptorOpen ==
  (top = "reset" /\ pc = "idle" /\ dexc = "RuntimeError") =>
    /\ polls = PollLimit
    /\ \A n \in FdNums : ~IsOpen(fdtab, n)

\* C10: whenever the device is Mapped, after construction's setup or after
\* any number of completed resets, it holds an open descriptor, both BAR
\* mappings are live mappings made over that descriptor, and its
\* architecture is a supported one.
C10_MappedHoldsFdAndBars == life = "Mapped" => MappedOverCurrentFd

\* Mapped again after the second reset the client called
C10_Witness ==
  /\ life = "Mapped"
  /\ pc = "idle"
  /\ top = "reset"
  /\ resets = MaxResets
  /\ dexc = "none"
  /\ gen = 1 + MaxResets

\* the physical reset (the ASIC or ASIC+DMC reset ioctl) has been issued on
\* descriptor g in the running or last call
PhysicalResetOn(g) ==
  \E i \in 1..Len(evlog) :
    \/ evlog[i] = <<"reset_ioctl", TENSTORRENT_RESET_DEVICE_ASIC_RESET, g>>
    \/ evlog[i] = <<"reset_ioctl", TENSTORRENT_RESET_DEVICE_ASIC_DMC_RESET, g>>

\* C11: entering Resetting closes the descriptor and unmaps both BARs first,
\* so no BAR mapping made before the reset is live while or after the
\* physical reset ioctl takes effect. Refuted: reset() issues the ioctl
\* (device.py:233) before _close() (device.py:234).
C11_NoBarLiveAcrossPhysicalReset ==
  \A g \in 1..(1 + MaxResets) :
    PhysicalResetOn(g) =>
      /\ mm0 # [st |-> "live", gen |-> g]
      /\ mm1 # [st |-> "live", gen |-> g]

\* C12: constructing a Device either completes or leaves no new kernel-side
\* resource: if a step of __init__ fails, no descriptor and no BAR mapping
\* opened by the construction stays open. Refuted: only the two SystemExit
\* paths of _setup close the descriptor; __init__ has no cleanup.
C12_FailedConstructionLeavesNothingOpen ==
  (top = "init" /\ pc \in {"ctor_failed", "exited"}) =>
    /\ \A n \in FdNums : ~IsOpen(fdtab, n)
    /\ mm0.st # "live"
    /\ mm1.st # "live"

\* the events of the running or last call that satisfy a test
CountEvents(Test(_)) == Cardinality({ i \in 1..Len(evlog) : Test(evlog[i]) })
IsSetupEvent(e) == e[1] = "setup"
IsInputEvent(e) == e[1] = "input"
IsPhysicalReset(e) == e[1] = "reset_ioctl" /\ e[2] # TENSTORRENT_RESET_DEVICE_POST_RESET

\* one call validates at most twice (the open attempt) or once (a client
\* reset), resets at most once and asks the user at most once
C13_AtMostOneAutomaticReset ==
  /\ CountEvents(IsPhysicalReset) <= 1
  /\ CountEvents(IsInputEvent) <= 1
  /\ CountEvents(IsSetupEvent) <= (IF top = "init" THEN 2 ELSE 1)
  /\ top = "reset" => CountEvents(IsInputEvent) = 0

\* a step of _setup that read an unsupported card type: on the retried
\* attempt it closes the descriptor and exits without asking; on the first
\* attempt it goes on to ask, the descriptor still open
C13_ValidateStep ==
  (pc = "setup" /\ pc' # "map_bars" /\ dexc' # "OSError") =>
    /\ arch' \notin SupportedArchs
    /\ \/ /\ retried
          /\ pc' = "exited" /\ dexc' = "SystemExit" /\ ~IsOpen(fdtab', fd)
          /\ evlog' = evlog \o << <<"setup", TRUE>>, <<"close_fd", "dev", fdtab[fd].gen>> >>
       \/ /\ ~retried
          /\ pc' = "setup_ask" /\ fdtab' = fdtab /\ IsOpen(fdtab, fd)
          /\ evlog' = Append(evlog, <<"setup", FALSE>>)

\* a supported card type goes on to map the BARs
C13_SupportedStep == (pc = "setup" /\ pc' = "map_bars") => arch' \in SupportedArchs

\* the prompt of the first attempt is answered 'y' and reset(dmc_reset=True)
\* starts with the descriptor still open
C13_Confirmed ==
  /\ ~retried
  /\ pc' = "reset" /\ dmc' /\ fdtab' = fdtab /\ IsOpen(fdtab, fd)
  /\ evlog' = Append(evlog, <<"input", "y">>)

\* the prompt is not confirmed: the descriptor is closed and the process exits
C13_Declined ==
  /\ ~retried
  /\ pc' = "exited" /\ dexc' = "SystemExit" /\ ~IsOpen(fdtab', fd)
  /\ evlog' = evlog \o << <<"input", "n">>, <<"close_fd", "dev", fdtab[fd].gen>> >>

\* the step that follows the prompt: reset if the user confirms, otherwise
\* close the descriptor and exit
C13_ConfirmStep == (pc = "setup_ask") => (C13_Confirmed \/ C13_Declined)

\* C13: in Validating an unsupported architecture on the first attempt offers
\* an interactive reset (reset only if the user confirms, otherwise close the
\* descriptor and exit) and on a retried attempt is fatal: the descriptor is
\* closed and no further reset is started, so one open attempt triggers at
\* most one automatic reset and the validate/reset recursion terminates.
\* Refuted: with stdin at end of file input() raises EOFError (device.py:183),
\* which leaves _setup before os.close on line 187.
C13_UnsupportedArchHandling ==
  /\ []C13_AtMostOneAutomaticReset
  /\ [][C13_ValidateStep /\ C13_SupportedStep /\ C13_ConfirmStep]_vars

\* the state the refutation reaches: the constructor has raised EOFError out
\* of the prompt and the descriptor it opened is still open
C13_PromptAtEofLeavesDescriptorOpen ==
  /\ top = "init" /\ pc = "ctor_failed" /\ dexc = "EOFError"
  /\ ~retried /\ IsOpen(fdtab, fd) /\ fdtab[fd].kind = "dev"
  /\ evlog = << <<"setup", FALSE>>, <<"input", "EOF">> >>

\* what holds of every step after the prompt: it resets, or closes and
\* exits, or raises EOFError with the descriptor untouched; and the bounds
\* on validations, resets and prompts per call
C13_ExceptAtEof ==
  /\ []C13_AtMostOneAutomaticReset
  /\ [][C13_ValidateStep /\ C13_SupportedStep]_vars
  /\ [][(pc = "setup_ask") =>
          \/ C13_Confirmed
          \/ C13_Declined
          \/ /\ dexc' = "EOFError" /\ fdtab' = fdtab /\ pc' = "ctor_failed"
             /\ evlog' = Append(evlog, <<"input", "EOF">>)]_vars

\* the retried validation after the automatic reset of an open attempt read
\* an unsupported card type again and exited
C13_Witness ==
  /\ top = "init" /\ pc = "exited" /\ retried
  /\ CountEvents(IsPhysicalReset) = 1
  /\ CountEvents(IsSetupEvent) = 2
  /\ \A n \in FdNums : fdtab[n].kind # "dev"

\* the system calls of a successful reset(dmc_reset), in order: g0 is the
\* descriptor held at the call (of kind kd), p the rediscovered file and g1
\* the descriptor opened on it
ResetSteps(dmc_reset, g0, kd, p, g1) ==
  << <<"get_bdf", g0>>,
     <<"reset_ioctl", IF dmc_reset THEN 5 ELSE 4, g0>>,
     <<"unmap_bars">>,
     <<"close_fd", kd, g0>>,
     <<"open", p, g1>>,
     <<"reset_ioctl", 6, g1>>,
     <<"setup", TRUE>>,
     <<"get_bdf", g1>>,
     <<"map_bars", g1>> >>

\* C14: a successful reset() performs, in exactly this order: read the
\* pre-reset BDF, the reset ioctl with flag 5 (ASIC_DMC_RESET) if dmc_reset
\* else 4 (ASIC_RESET), unmap the BARs and close the descriptor, poll, open
\* the rediscovered file, the reset ioctl with flag 6 (POST_RESET) on the new
\* descriptor, validate with retried set, map the BARs. POST_RESET is never
\* issued on the pre-reset descriptor and no BAR is mapped before it. While
\* reset() runs without an exception, what it has done is a prefix of that
\* order.
C14_ResetStepOrder ==
  (top = "reset" /\ dexc = "none") =>
    \E g0 \in 0..gen, g1 \in 1..(gen + 1), kd \in {"dev", "probe"}, p \in Ords :
      /\ g1 > g0
      /\ IsPrefix(evlog, ResetSteps(dmc, g0, kd, p, g1))
      /\ pc = "reset_poll" => Len(evlog) = 4
      /\ Len(evlog) > 4 => rsum.foundAt >= 1
      /\ (Len(evlog) \in 4..8 /\ pc # "idle") => (mm0.st # "live" /\ mm1.st # "live")
      /\ (pc = "idle" /\ dexc = "none") =>
           /\ evlog = ResetSteps(dmc, g0, kd, p, g1)
           /\ p = path
           /\ IsOpen(fdtab, fd) /\ fdtab[fd].gen = g1

\* a reset(dmc_reset=True) has returned
C14_Witness ==
  /\ top = "reset" /\ pc = "idle" /\ dexc = "none" /\ dmc
  /\ Len(evlog) = 9
  /\ evlog[2] = <<"reset_ioctl", TENSTORRENT_RESET_DEVICE_ASIC_DMC_RESET, 1>>
  /\ evlog[6] = <<"reset_ioctl", TENSTORRENT_RESET_DEVICE_POST_RESET, 2>>

\* the poll loop never starts more than 50 iterations
C15_BoundedProbes == pc = "reset_poll" => polls \in 0..PollLimit

\* a step that leaves the wait: either a probe, one of at most 50, found a
\* listed file whose device has the pre-reset BDF, and that file is the one
\* to reopen; or 50 probes have found none and reset() raises the timeout
\* error without probing again; or a probe, one of at most 50, could not
\* list the directory and its OSError ends reset() with no file adopted
C15_LeaveWait ==
  (pc = "reset_poll" /\ pc' # "reset_poll") =>
    \/ /\ pc' = "reset_open"
       /\ polls < PollLimit
       /\ nodes'[path'] = bdf
       /\ dexc' = dexc
    \/ /\ polls = PollLimit
       /\ dexc' = "RuntimeError"
       /\ pc' \in {"idle", "ctor_failed"}
       /\ fdtab' = fdtab /\ nodes' = nodes
    \/ /\ polls < PollLimit
       /\ dexc' = "OSError"
       /\ pc' \in {"idle", "ctor_failed"}
       /\ \A o \in Ords : nodes'[o] = "none"
       /\ fdtab' = fdtab /\ path' = path /\ fd' = fd

\* a probe that finds no match is counted, and nothing but the listing and
\* the probes' own descriptors changes while waiting
C15_ProbeAgain ==
  (pc = "reset_poll" /\ pc' = "reset_poll") =>
    /\ polls' = polls + 1
    /\ path' = path /\ fd' = fd /\ bdf' = bdf

\* the file that is reopened is the one the probe found, and the descriptor
\* obtained refers to the device with the pre-reset BDF
C15_ReopenFound ==
  (pc = "reset_open" /\ pc' = "reset_post") =>
    /\ path' = path
    /\ fdtab'[fd'].dev = bdf
    /\ evlog' = Append(evlog, <<"open", path, fdtab'[fd'].gen>>)

\* C15: the re-enumeration wait of reset() always terminates: at most 50
\* probes, stopping at the first probe that finds a device file whose BDF
\* equals the pre-reset BDF and reopening exactly that file; it fails without
\* a further retry if none of the 50 probes matches; a device file with a
\* different BDF is never adopted.
C15_ReenumerationWait ==
  /\ []C15_BoundedProbes
  /\ [][C15_LeaveWait /\ C15_ProbeAgain /\ C15_ReopenFound]_vars

\* the wait ended at the timeout while another device's file was listed
C15_Witness ==
  /\ top = "reset" /\ pc = "idle" /\ dexc = "RuntimeError"
  /\ polls = PollLimit
  /\ \E o \in Ords : nodes[o] # "none" /\ nodes[o] # bdf

(***************************************************************************)
(* Claims about get_harvesting's telemetry reads, checked under            *)
(* SpecBringup.                                                            *)
(***************************************************************************)
\* the scratch register has been read in the running get_harvesting
PtrRead ==
  /\ Len(wlog) >= 2
  /\ wlog[2] = [op |-> "readi32", win |-> "arc", off |-> Arc_SCRATCH_RAM_13]
\* the pointer read is zero or outside the CSM region
PtrInvalid == hl.ptr = 0 \/ hl.ptr < Arc_CSM_START \/ hl.ptr > Arc_CSM_END
\* the window-size-aligned floor of the pointer and the remainder
PtrFloor == (hl.ptr \div TLBSize_MiB_2) * TLBSize_MiB_2
PtrRem == hl.ptr % TLBSize_MiB_2
\* the positions of wlog after the read of the scratch register
TableOps == { i \in 1..Len(wlog) : i > 2 }

\* C16: if the telemetry pointer is zero or outside the region, the
\* operation fails at once: the window is not reconfigured and nothing else
\* is read. If it is valid, the window is reconfigured to the aligned floor
\* of the pointer before any table read, and every table read is at an
\* offset relative to the in-window remainder: the header at +4, entry i at
\* +8 + 4i, a tag value behind the entry array.
C16_TelemetryPointerCheck ==
  PtrRead =>
    IF PtrInvalid
    THEN /\ bpc = "raised" /\ exc = "RuntimeError"
         /\ wlog = << wlog[1], wlog[2], [op |-> "release", win |-> "arc"] >>
    ELSE /\ \A i \in TableOps :
              wlog[i].op \in {"configure", "readi32", "release"}
         /\ \A i \in TableOps : wlog[i].op = "configure" => i = 3
         /\ Len(wlog) >= 3 =>
              (wlog[3].op = "release" \/
               wlog[3] = [op |-> "configure", win |-> "arc", addr |-> PtrFloor,
                          mode |-> "STRICT"])
         /\ \A i \in TableOps : wlog[i].op = "readi32" =>
              /\ i > 3 /\ wlog[3].op = "configure"
              /\ IF i = 4 THEN wlog[i].off = PtrRem + 4
                 ELSE IF i <= 4 + hl.entry_count
                 THEN wlog[i].off = PtrRem + 8 + 4 * (i - 5)
                 ELSE \E o \in 0..MaxOff :
                        wlog[i].off = PtrRem + 8 + 4 * hl.entry_count + 4 * o

\* an invalid pointer was read and get_harvesting raised
C16_Witness ==
  /\ PtrRead /\ hl.ptr = Arc_CSM_END + 1
  /\ bpc = "raised" /\ exc = "RuntimeError"

\* the table entries read that carry the tag in their low 16 bits
EntriesWith(tag) == { i \in 1..Len(hl.entries) : hl.entries[i] % 65536 = tag }
\* the offset of the tag: the high 16 bits of the entry that carries it (of
\* the last one read, should several carry it)
OffsetOf(tag) ==
  LET i == CHOOSE k \in EntriesWith(tag) : \A j \in EntriesWith(tag) : j <= k
  IN  (hl.entries[i] \div 65536) % 65536
\* the value of a required tag: the word read at data_base + 4 * offset,
\* with data_base right behind the entry array, or the default if no entry
\* carries the tag
TagValueIs(tag, default, value) ==
  IF EntriesWith(tag) # {}
  THEN /\ value = hl.mem[OffsetOf(tag)]
       /\ \E i \in 1..Len(wlog) :
            wlog[i] = [op |-> "readi32", win |-> "arc",
                       off |-> (hl.ptr % TLBSize_MiB_2) + 8 + 4 * hl.entry_count
                               + 4 * OffsetOf(tag)]
  ELSE value = default

\* C17: for each required tag the value used is the 32-bit word at
\* data_base + 4 * offset, where offset is the high 16 bits of the table
\* entry whose low 16 bits equal the tag and data_base immediately follows
\* the entry array; if no entry carries the tag the architecture default is
\* used and the operation does not fail for that reason.
C17_TagLookupOrDefault ==
  bpc = "h_decode" =>
    /\ exc = "none"
    /\ Len(hl.entries) = hl.entry_count
    /\ TagValueIs(34, 16383, hl.tensix_enabled)
    /\ TagValueIs(35, 16383, hl.eth_enabled)
    /\ TagValueIs(36, 255, hl.gddr_enabled)

\* the tensix tag is in the table at offset 1, the GDDR tag is absent
C17_Witness ==
  /\ bpc = "h_decode"
  /\ hl.entries = <<1, 34 + 65536>>
  /\ hl.tensix_enabled = hl.mem[1]
  /\ hl.mem[0] # hl.mem[1]
  /\ hl.gddr_enabled = 255

(***************************************************************************)
(* Further claims about TileGrid.from_harvesting, checked under SpecFn.    *)
(***************************************************************************)
\* the columns of 0..16 that are neither memory-bank columns (0, 9) nor the
\* auxiliary-core column (8) nor harvested in the call
ValidColumnsOfCall == { x \in 0..16 : x \notin {0, 9, 8, arg[1], arg[2]} }

\* C18: the unicast tile set of TileGrid.from_harvesting is exactly the
\* cartesian product of the valid compute columns with the rows 2..11,
\* without duplicates: no tile in column 0, 9, 8 or a harvested column, and
\* every (column, row) of every other column of 0..16.
C18_UnicastIsValidColumnsTimesRows ==
  (fn = "from_harvesting" /\ called) =>
    LET t == res.tensix
    IN  /\ { t[i] : i \in 1..Len(t) } = { <<x, y>> : x \in ValidColumnsOfCall, y \in 2..11 }
        /\ \A i \in 1..Len(t) : \A j \in 1..Len(t) : i # j => t[i] # t[j]
        /\ \A i \in 1..Len(t) : t[i][1] \notin {0, 9, 8, arg[1], arg[2]}

\* columns 7 and 10 harvested: 120 tiles, among them the corners (1, 2) and
\* (16, 11)
C18_Witness ==
  /\ fn = "from_harvesting" /\ called
  /\ arg = <<7, 10>>
  /\ Len(res.tensix) = 120
  /\ res.tensix[1] = <<1, 2>>
  /\ res.tensix[120] = <<16, 11>>

\* C19: each multicast range of TileGrid.from_harvesting is a maximal run of
\* consecutive valid columns: every column of a range is valid, the columns
\* next to its ends are not, and for successive ranges (s1, e1), (s2, e2)
\* e1 + 1 < s2, so that no two ranges could be merged.
C19_McastRangesAreMaximalRuns ==
  (fn = "from_harvesting" /\ called) =>
    LET r == res.tensix_mcast
    IN  /\ \A i \in 1..Len(r) :
             /\ \A x \in r[i][1]..r[i][2] : x \in ValidColumnsOfCall
             /\ (r[i][1] - 1) \notin ValidColumnsOfCall
             /\ (r[i][2] + 1) \notin ValidColumnsOfCall
        /\ \A i \in 1..(Len(r) - 1) : r[i][2] + 1 < r[i + 1][1]

\* two adjacent harvested columns 4 and 5 give the three ranges (1,3) (6,7)
\* (10,16)
C19_Witness ==
  /\ fn = "from_harvesting" /\ called
  /\ arg = <<4, 5>>
  /\ res.tensix_mcast = <<(<<1, 3>>), <<6, 7>>, <<10, 16>>>>

(***************************************************************************)
(* helpers.load_pt_load, checked under SpecFn.                             *)
(***************************************************************************)
\* the image of the call and the program headers it was built from
ImageOfCall == ElfFile(arg[1], arg[2])
HeadersOfCall == arg[1]

\* bytes [a, b) of the image, for a range that lies within the file
FileBytes(a, b) == [i \in 1..(b - a) |-> ImageOfCall[a + i]]

\* some PT_LOAD header declares a file range that ends beyond the file
SomeRangeExceedsFile ==
  \E i \in 1..Len(HeadersOfCall) :
    /\ HeadersOfCall[i].p_type = PT_LOAD
    /\ PhOffset(HeadersOfCall, i) + HeadersOfCall[i].p_filesz > Len(ImageOfCall)

\* the segments of headers i.. in header order, PT_LOAD headers only
RECURSIVE SegmentsFrom(_)
SegmentsFrom(i) ==
  IF i > Len(HeadersOfCall) THEN <<>>
  ELSE IF HeadersOfCall[i].p_type # PT_LOAD THEN SegmentsFrom(i + 1)
  ELSE <<[paddr |-> HeadersOfCall[i].p_paddr,
          data  |-> FileBytes(PhOffset(HeadersOfCall, i),
                              PhOffset(HeadersOfCall, i) + HeadersOfCall[i].p_filesz),
          memsz |-> PhMemsz(HeadersOfCall, i)]>> \o SegmentsFrom(i + 1)

\* C20: load_pt_load returns, in program-header order, exactly one segment
\* for each program header of type PT_LOAD and none for any other type, each
\* with the header's physical address, the file bytes
\* [p_offset, p_offset + p_filesz) and the in-memory size; if the declared
\* file range of any PT_LOAD header exceeds the file size the call fails and
\* returns no segments.  An intact image without such a header is loaded.
C20_LoadPtLoadSegments ==
  (fn = "load_pt_load" /\ called) =>
    /\ SomeRangeExceedsFile => (res.err # "none" /\ res.segs = <<>>)
    /\ res.err = "none" => res.segs = SegmentsFrom(1)
    /\ (~arg[2] /\ ~SomeRangeExceedsFile) => res.err = "none"

\* a header of another type before a PT_LOAD header: one segment, that of
\* the second header, with an in-memory size larger than its file range
C20_Witness ==
  /\ fn = "load_pt_load" /\ called
  /\ Len(arg[1]) = 2 /\ ~arg[2]
  /\ arg[1][1].p_type = 2
  /\ res.err = "none"
  /\ res.segs = <<[paddr |-> 300, data |-> <<161, 162>>, memsz |-> 6]>>

\* a PT_LOAD header whose file range ends one byte after the file, behind a
\* good one: ValueError, nothing returned
C20_WitnessTruncated ==
  /\ fn = "load_pt_load" /\ called
  /\ Len(arg[1]) = 2 /\ ~arg[2]
  /\ arg[1][1].p_type = PT_LOAD /\ arg[1][1].rel + arg[1][1].p_filesz <= MaxDataLen
  /\ arg[1][2].p_type = PT_LOAD /\ arg[1][2].rel + arg[1][2].p_filesz = MaxDataLen + 1
  /\ res = [err |-> "ValueError", segs |-> <<>>]

(***************************************************************************)
(* Descriptor ownership over reset() and close()                           *)
(***************************************************************************)
\* the system call closes a descriptor number that is open and that this
\* Device opened
ClosesOwnOpenDescriptor(ev) == ev[2] = "dev" /\ ev[3] > 0

\* C21: over any sequence of reset() and close() calls on a Device, a
\* reset() that fails with the re-enumeration timeout and a close() called
\* twice included, every close targets a descriptor that is currently open
\* and was opened by this Device: no descriptor is closed twice and the
\* stale number left after a failed reset is never closed again.
C21_EveryCloseTargetsOwnOpenDescriptor ==
  \A i \in 1..Len(evlog) :
    evlog[i][1] = "close_fd" => ClosesOwnOpenDescriptor(evlog[i])

\* close() after close(): the second os.close is given a number that is no
\* longer open
C21_ClosedTwice ==
  /\ top = "close" /\ dexc = "OSError"
  /\ \E i \in 1..Len(evlog) : evlog[i] = <<"close_fd", "free", 0>>

\* close() after a reset() that timed out: the stale number now names a
\* descriptor a probe left open, and close() closes that one
C21_StaleNumberClosesProbe ==
  /\ top = "close" /\ dexc = "none"
  /\ \E i \in 1..Len(evlog) : evlog[i][1] = "close_fd" /\ evlog[i][2] = "probe"

(***************************************************************************)
(* The descriptors find_dev_by_bdf leaves behind                           *)
(***************************************************************************)
\* one probe of the wait of reset: a call of find_dev_by_bdf
FindDevByBdfCall == pc = "reset_poll" /\ polls < PollLimit

\* C22: a call of find_dev_by_bdf leaves the set of open descriptors
\* unchanged: every candidate device file it opens to query the BDF is
\* closed again before the call returns, whether the get-device-info ioctl
\* on the candidate succeeds or fails and whether or not a match is found.
C22_FindDevByBdfLeavesDescriptorsUnchanged ==
  [][FindDevByBdfCall => fdtab' = fdtab]_vars

\* a probe has left a descriptor of a candidate open
C22_ProbeDescriptorLeftOpen ==
  /\ pc = "reset_poll" /\ polls > 0
  /\ \E n \in FdNums : fdtab[n].kind = "probe"

(***************************************************************************)
(* upload_firmware and the bounds of the local memory                      *)
(***************************************************************************)
\* the address of the segment lies in the local-RAM alias range and its
\* translation to the scratch base of image f falls outside the per-core
\* memory
RemapOutOfBounds(f, seg) ==
  /\ TensixMMIO_LOCAL_RAM_START <= seg[1] /\ seg[1] <= TensixMMIO_LOCAL_RAM_END
  /\ ~(/\ 0 <= (seg[1] - TensixMMIO_LOCAL_RAM_START) + FwInitBase[f]
       /\ (seg[1] - TensixMMIO_LOCAL_RAM_START) + FwInitBase[f] < TensixL1_SIZE)

\* the images of the upload hold such a segment; with file bytes
SomeSegmentOutOfBounds ==
  \E f \in 1..Len(fws) : \E k \in 1..Len(fws[f]) : RemapOutOfBounds(f, fws[f][k])
SomeWrittenSegmentOutOfBounds ==
  \E f \in 1..Len(fws) : \E k \in 1..Len(fws[f]) :
    fws[f][k][2] > 0 /\ RemapOutOfBounds(f, fws[f][k])

\* a reset-release write has been issued for a column range
ReleaseWritten ==
  \E i \in 1..Len(wlog) :
    wlog[i].op = "writei32" /\ wlog[i].win = "fw" /\ wlog[i].val = 0
\* a reset-assert write has been issued for a column range
AssertWritten ==
  \E i \in 1..Len(wlog) :
    wlog[i].op = "writei32" /\ wlog[i].win = "fw"
      /\ wlog[i].val = TensixMMIO_SOFT_RESET_ALL

\* C23 as stated: if the remapped address of any firmware segment violates
\* the local-memory bounds, upload_firmware fails before any reset-release
\* write (value 0) has been issued for any column range.
C23_Original_AnySegmentOutOfBoundsFails ==
  SomeSegmentOutOfBounds => (~ReleaseWritten /\ bpc # "done")

\* C23, amended: if the remapped address of any firmware segment that has
\* file bytes violates the local-memory bounds check, upload_firmware fails
\* before any reset-release write (value 0) has been issued for any column
\* range: no core of any range starts running while the upload is
\* incomplete, and every range whose reset-assert write was issued stays
\* held in reset.
C23_OutOfBoundsFailsBeforeAnyRelease ==
  SomeWrittenSegmentOutOfBounds => (~ReleaseWritten /\ bpc # "done")

\* the bounds check has failed with the first range held in reset
C23_Witness ==
  /\ SomeWrittenSegmentOutOfBounds
  /\ bpc = "raised" /\ exc = "AssertionError"
  /\ AssertWritten /\ ~ReleaseWritten

\* an upload that finished although an empty segment's address translates
\* out of bounds
C23_EmptySegmentNotChecked ==
  /\ SomeSegmentOutOfBounds /\ ~SomeWrittenSegmentOutOfBounds
  /\ bpc = "done" /\ ReleaseWritten

(***************************************************************************)
(* The records get_harvesting returns and the grids derived from them,     *)
(* checked under SpecFn.                                                   *)
(***************************************************************************)
\* the 14 compute-column locations (main.py:35)
ComputeColumnLocations == (1..7) \cup (10..16)

\* the columns that carry a unicast tile of the grid
ColumnsOfGrid(g) == { g.tensix[i][1] : i \in 1..Len(g.tensix) }

\* C24: for every Harvesting record that get_harvesting can return, the two
\* disabled columns are distinct, in ascending order and members of the 14
\* compute-column locations {1..7, 10..16}, so the TileGrid derived from it
\* always has exactly 12 valid compute columns, exactly 120 unicast tiles
\* and between 2 and 4 multicast ranges.
C24_ReturnedHarvestingGivesFullGrid ==
  (fn = "decode_harvesting" /\ called /\ res.out.err = "none") =>
    LET cols == res.out.val.tensix_cols
        g == from_harvesting(res.out.val)
    IN  /\ Len(cols) = 2
        /\ cols[1] < cols[2]
        /\ cols[1] \in ComputeColumnLocations
        /\ cols[2] \in ComputeColumnLocations
        /\ Cardinality(ColumnsOfGrid(g)) = 12
        /\ ColumnsOfGrid(g) = ComputeColumnLocations \ {cols[1], cols[2]}
        /\ Len(g.tensix) = 120
        /\ Len(g.tensix_mcast) \in 2..4

\* enabled mask 0x3F7E: bits 0 and 7 clear, locations 1 and 13 off, with
\* three multicast ranges (2,7) (10,12) (14,16)
C24_Witness ==
  /\ fn = "decode_harvesting" /\ called /\ res.out.err = "none"
  /\ arg[1] = 16254
  /\ res.out.val.tensix_cols = <<1, 13>>
  /\ from_harvesting(res.out.val).tensix_mcast = <<(<<2, 7>>), <<10, 12>>, <<14, 16>>>>

\* the extremes: two ranges (columns 7 and 10 off) and four (3 and 12 off)
C24_WitnessTwoRanges ==
  /\ fn = "decode_harvesting" /\ called /\ res.out.err = "none"
  /\ res.out.val.tensix_cols = <<7, 10>>
  /\ Len(from_harvesting(res.out.val).tensix_mcast) = 2
C24_WitnessFourRanges ==
  /\ fn = "decode_harvesting" /\ called /\ res.out.err = "none"
  /\ res.out.val.tensix_cols = <<3, 12>>
  /\ Len(from_harvesting(res.out.val).tensix_mcast) = 4

(***************************************************************************)
(* The two harvesting variants (device.py and main.py), under SpecFn       *)
(***************************************************************************)
\* the positions of the set bits of a mask
RECURSIVE SetBits(_, _)
SetBits(m, pos) ==
  IF m = 0 THEN {} ELSE (IF m % 2 = 1 THEN {pos} ELSE {}) \cup SetBits(m \div 2, pos + 1)

\* the raw mask a shuffled mask comes from: the bit at the table position
\* of the location that the sorted table holds at each set index
RECURSIVE MaskOf(_)
MaskOf(S) == IF S = {} THEN 0 ELSE LET p == CHOOSE q \in S : TRUE
                                   IN  Pow2(p) + MaskOf(S \ {p})
TablePositionOf(loc) ==
  CHOOSE pos \in 0..13 : HARVESTING_NOC_LOCATIONS[pos + 1] = loc
Unshuffle(new_mask) ==
  MaskOf({ TablePositionOf(SORTED_LOCATIONS[i + 1]) : i \in SetBits(new_mask, 0) })

\* C25: the two harvesting variants agree on the disabled compute columns:
\* for every 14-bit enabled-compute mask, the set of columns device.py
\* derives (table[pos] for every clear bit pos) equals the set
\* {sorted_table[i] : bit i is set in
\* shuffle_tensix_harvesting_mask(~mask & 0x3FFF)} of main.py, and
\* shuffle_tensix_harvesting_mask is a bit permutation on 14-bit masks: it
\* is injective (the raw mask is recovered from its result) and preserves
\* the number of set bits.
C25_HarvestingVariantsAgree ==
  (fn = "shuffle_tensix_harvesting_mask" /\ called) =>
    /\ Range(res.tensix_off)
         = { SORTED_LOCATIONS[i + 1] : i \in SetBits(res.tensix, 0) }
    /\ Range(res.tensix_off)
         = { HARVESTING_NOC_LOCATIONS[pos + 1] : pos \in { q \in 0..13 : Bit(arg[1], q) = 0 } }
    /\ res.tensix \in 0..16383
    /\ Unshuffle(res.tensix) = res.raw
    /\ Cardinality(SetBits(res.tensix, 0)) = Cardinality(SetBits(res.raw, 0))

\* enabled mask 0x3FF9: raw bits 1 and 2 (locations 16 and 2) become bits
\* 13 and 1 of the shuffled mask
C25_Witness ==
  /\ fn = "shuffle_tensix_harvesting_mask" /\ called
  /\ arg = <<16377>>
  /\ res.raw = 6
  /\ res.tensix = 8194
  /\ res.tensix_off = <<2, 16>>

====
